---- MODULE Spec2Model ----
(***************************************************************************)
(* Model of the quantitative analysis engine of stock-analysis-tool:       *)
(* RSI / MACD indicators (src/lib/utils.ts), the VAR component with its    *)
(* chi-square and cointegration screens (VARAnalysis), the ARIMA and GARCH *)
(* result timelines and the future-date generators.                        *)
(*                                                                         *)
(* JavaScript numbers are modelled as exact fractions <<n, d>> with        *)
(* d >= 0: <<n, d>> with d > 0 is n/d in lowest terms, <<1, 0>> and        *)
(* <<-1, 0>> are +Infinity and -Infinity, <<0, 0>> is NaN.  The tuple <<>> *)
(* is `undefined` and <<0>> is `null`.  Rounding of IEEE doubles and the   *)
(* sign of zero are not modelled.                                          *)
(*                                                                         *)
(* A date string "yyyy-MM-dd" is modelled as <<day>>, day being the number *)
(* of the calendar day (day 0 is a Monday); <<>> is an undefined date.     *)
(* A Date object is an instant counted in hours since 00:00 UTC of day 0.  *)
(***************************************************************************)
EXTENDS Integers, Sequences, FiniteSets, TLC

VARIABLES
    stocks,          \* props.stocks: symbol -> sequence of [date, close]
    selectedStock,   \* props.selectedStock / props.targetStock
    featureStocks,   \* props.featureStocks (VAR only)
    params,          \* props.params
    tz,              \* the host's time zone (environment of Date)
    results,         \* useState results
    auxResults,      \* normalizedResults (VAR) / volatilityResults (GARCH)
    error,           \* useState error: "" is null
    chiSquareResults,     \* useState chiSquareResults: feature symbol -> result
    cointegrationResults, \* useState cointegrationResults: feature symbol -> result
    pc,              \* position of the handler: "idle" until it has run
    liveTensors,     \* tensors and models an ARIMA or GARCH call allocated and
                     \* did not dispose
    runs             \* the GARCH runs the effect has started, in start order

vars == <<stocks, selectedStock, featureStocks, params, tz, results, auxResults, error,
          chiSquareResults, cointegrationResults, pc, liveTensors, runs>>

----------------------------------------------------------------------------
(* Bounds of the model *)

MaxLen == 5
MaxClose == 3
MaxPeriod == 3
MaxGap == 3
MaxGaps == 3
MaxSteps == 3
VarMaxLen == 3
VarMaxClose == 2
VarMaxTail == 0
VarMaxFeatureLen == 1
VarMaxLag == 2
VarMaxSteps == 3
ForecastMaxLen == 4
ForecastMaxClose == 2
MaxOrder == 2
MaxD == 1
ScreenMaxLen == 5
ScreenMaxClose == 2
Precision == 10000
ExpTerms == 40
CorrMaxShort == 3
CorrMaxExtra == 1
CorrMaxOffset == 2
CsvMaxLines == 2
SeriesMaxLen == 4
SeriesMaxClose == 3
SeriesMaxLag == 3
SeriesMaxD == 4
RollMaxLen == 4
RollMaxValue == 2
RollMaxOrder == 2
RollMaxSteps == 2
UndiffMaxLen == 4
UndiffMaxClose == 2
UndiffMaxD == 2
UndiffMaxSteps == 2
MaxRuns == 2
RunsMaxSteps == 1

----------------------------------------------------------------------------
(* JavaScript numbers *)

NaN == <<0, 0>>
PosInf == <<1, 0>>
NegInf == <<-1, 0>>
Undefined == <<>>
Null == <<0>>

AbsI(x) == IF x < 0 THEN -x ELSE x
SgnI(x) == IF x < 0 THEN -1 ELSE IF x > 0 THEN 1 ELSE 0

RECURSIVE Gcd(_, _)
Gcd(a, b) == IF b = 0 THEN a ELSE Gcd(b, a % b)

Norm(n, d) ==
    IF d = 0 THEN <<SgnI(n), 0>>
    ELSE LET g == Gcd(AbsI(n), AbsI(d))
             s == IF d < 0 THEN -1 ELSE 1
         IN <<s * (n \div g), s * (d \div g)>>

R(i) == <<i, 1>>
IsNum(x) == Len(x) = 2
\* ToNumber: undefined -> NaN, null -> 0
Num(x) == IF Len(x) = 2 THEN x ELSE IF Len(x) = 1 THEN R(0) ELSE NaN
IsNaN(x) == Num(x) = NaN
IsFinite(x) == Len(x) = 2 /\ x[2] > 0

Neg(a) == LET x == Num(a) IN <<-x[1], x[2]>>

Add(a, b) ==
    LET x == Num(a)
        y == Num(b)
    IN IF x = NaN \/ y = NaN THEN NaN
       ELSE IF x[2] = 0 /\ y[2] = 0 THEN (IF x[1] = y[1] THEN x ELSE NaN)
       ELSE IF x[2] = 0 THEN x
       ELSE IF y[2] = 0 THEN y
       ELSE LET g == Gcd(x[2], y[2])
                l == (x[2] \div g) * y[2]
            IN Norm(x[1] * (l \div x[2]) + y[1] * (l \div y[2]), l)

Sub(a, b) == Add(a, Neg(b))

Mul(a, b) ==
    LET x == Num(a)
        y == Num(b)
    IN IF x[2] = 0 \/ y[2] = 0 THEN <<SgnI(x[1]) * SgnI(y[1]), 0>>
       ELSE LET g1 == Gcd(AbsI(x[1]), y[2])
                g2 == Gcd(AbsI(y[1]), x[2])
            IN Norm((x[1] \div g1) * (y[1] \div g2), (x[2] \div g2) * (y[2] \div g1))

Inv(a) ==
    LET x == Num(a)
    IN IF x = NaN THEN NaN
       ELSE IF x[2] = 0 THEN R(0)
       ELSE IF x[1] = 0 THEN PosInf
       ELSE IF x[1] < 0 THEN <<-x[2], -x[1]>> ELSE <<x[2], x[1]>>

Div(a, b) == Mul(a, Inv(b))

\* a < b, a <= b, a === b on numbers: every comparison with NaN is false
Lt(a, b) ==
    LET x == Num(a)
        y == Num(b)
    IN x # NaN /\ y # NaN /\
       IF x[2] = 0 \/ y[2] = 0
       THEN (IF x[2] = 0 /\ y[2] = 0 THEN x[1] < y[1]
             ELSE IF x[2] = 0 THEN x[1] < 0 ELSE y[1] > 0)
       ELSE x[1] * y[2] < y[1] * x[2]
Eq(a, b) == Num(a) # NaN /\ Num(b) # NaN /\ Num(a) = Num(b)
Le(a, b) == Lt(a, b) \/ Eq(a, b)

AbsN(a) == LET x == Num(a) IN <<AbsI(x[1]), x[2]>>

RECURSIVE Pow10(_)
Pow10(k) == IF k = 0 THEN 1 ELSE 10 * Pow10(k - 1)

\* the digits after the point of r/d (0 <= r < d), by long division:
\* <<the digits read as an integer, the remainder left>>
RECURSIVE FractionDigits(_, _, _, _)
FractionDigits(r, d, k, acc) ==
    IF k = 0 THEN <<acc, r>>
    ELSE FractionDigits((10 * r) % d, d, k - 1, 10 * acc + ((10 * r) \div d))

\* parseFloat(x.toFixed(digits)): the nearest multiple of 10^-digits, a tie going
\* away from zero; NaN and the infinities print and parse as themselves
ToFixed(a, digits) ==
    LET x == Num(a)
    IN IF x[2] = 0 THEN x
       ELSE LET m == AbsI(x[1])
                fd == FractionDigits(m % x[2], x[2], digits, m \div x[2])
                n == IF 2 * fd[2] >= x[2] THEN fd[1] + 1 ELSE fd[1]
            IN Norm(SgnI(x[1]) * n, Pow10(digits))

\* an array built element by element, as a sequence value
Arr(f) == SubSeq(f, 1, Len(f))

\* the indices 1..n of an array of n elements (none when n <= 0)
Upto(n) == 1..(IF n > 0 THEN n ELSE 0)

\* array[i] with the source's 0-based index: undefined outside the array
At(s, i) == IF i >= 0 /\ i < Len(s) THEN s[i + 1] ELSE Undefined

\* the sum of an array; exact sums do not depend on the order, which is taken
\* half by half
RECURSIVE SumSeq(_)
SumSeq(s) ==
    IF Len(s) = 0 THEN R(0)
    ELSE IF Len(s) = 1 THEN Add(R(0), s[1])
    ELSE Add(SumSeq(SubSeq(s, 1, Len(s) \div 2)),
             SumSeq(SubSeq(s, (Len(s) \div 2) + 1, Len(s))))

\* array.slice(from, to) with 0 <= from
Slice(s, from, to) ==
    LET hi == IF to > Len(s) THEN Len(s) ELSE to
    IN IF from >= hi THEN <<>> ELSE SubSeq(s, from + 1, hi)

----------------------------------------------------------------------------
(* Stock data *)

UndefinedDate == <<>>
DateStr(day) == <<day>>

Closes(data) == Arr([i \in 1..Len(data) |-> R(data[i].close)])
Dates(data) == Arr([i \in 1..Len(data) |-> data[i].date])
\* data[i].date: reading .date of undefined throws a TypeError
DateAt(data, i) == IF i >= 0 /\ i < Len(data) THEN data[i + 1].date ELSE UndefinedDate

\* the i-th (from 0) Monday-to-Friday trading day counted from day 0
TradingDay(i) == 7 * (i \div 5) + (i % 5)

RECURSIVE SeqsUpTo(_, _)
SeqsUpTo(S, n) ==
    IF n = 0 THEN {<<>>}
    ELSE LET shorter == SeqsUpTo(S, n - 1)
         IN shorter \cup {Append(s, x) : s \in {t \in shorter : Len(t) = n - 1}, x \in S}

\* a stock's data: the given closes on consecutive trading days
DataOf(closes) == [i \in 1..Len(closes) |-> [date |-> DateStr(TradingDay(i - 1)), close |-> closes[i]]]

----------------------------------------------------------------------------
(* Date: the host's time zone is [before, after, at]: local time is UTC +    *)
(* before hours until the instant `at` (hours, UTC) and UTC + after hours    *)
(* from then on (one daylight-saving transition; before = after: none)       *)

UTC == [before |-> 0, after |-> 0, at |-> 0]
NoTz == UTC

\* zones without daylight saving (UTC, Asia/Seoul) and zones with a transition on
\* a Sunday (Europe/Berlin at 01:00 UTC, America/New_York at 02:00 local time)
TimeZones ==
    {UTC, [before |-> 9, after |-> 9, at |-> 0]}
    \cup {[before |-> 1, after |-> 2, at |-> 24 * sunday + 1] : sunday \in {13, 41}}
    \cup {[before |-> 2, after |-> 1, at |-> 24 * sunday + 1] : sunday \in {13, 41}}
    \cup {[before |-> -5, after |-> -4, at |-> 24 * sunday + 7] : sunday \in {13, 41}}
    \cup {[before |-> -4, after |-> -5, at |-> 24 * sunday + 6] : sunday \in {13, 41}}

TzOffset(zone, utc) == IF utc < zone.at THEN zone.before ELSE zone.after

\* new Date("yyyy-MM-dd"): a date-only string is midnight UTC; an undefined
\* argument gives an Invalid Date, modelled as day 0 never being read
NewDate(dateStr) == 24 * dateStr[1]

LocalTime(zone, utc) == utc + TzOffset(zone, utc)

\* date.getDay(): the weekday of the local calendar day, 0 = Sunday (day 0 is a Monday)
GetDay(zone, utc) == ((LocalTime(zone, utc) \div 24) + 1) % 7

\* date.setDate(date.getDate() + n): n local calendar days later at the same local
\* wall-clock time, converted back to an instant with the offset in force then
SetDatePlus(zone, utc, n) ==
    LET local == LocalTime(zone, utc) + 24 * n
        viaBefore == local - zone.before
        viaAfter == local - zone.after
    IN IF viaBefore < zone.at THEN viaBefore
       ELSE IF viaAfter >= zone.at THEN viaAfter
       ELSE viaBefore

\* date.toISOString().split("T")[0]: the UTC calendar day
ToISODate(utc) == DateStr(utc \div 24)

\* the weekday of a calendar date, 0 = Sunday
Weekday(dateStr) == (dateStr[1] + 1) % 7

\* Math.round((curr.getTime() - prev.getTime()) / (1000 * 60 * 60 * 24))
DiffDays(prev, curr) == (NewDate(curr) - NewDate(prev)) \div 24

RecentWindow == 20

\* dates.slice(-Math.min(20, dates.length))
RecentDates(dates) ==
    LET n == IF RecentWindow < Len(dates) THEN RecentWindow ELSE Len(dates)
    IN SubSeq(dates, Len(dates) - n + 1, Len(dates))

Intervals(recentDates) ==
    Arr([i \in Upto(Len(recentDates) - 1) |-> DiffDays(recentDates[i], recentDates[i + 1])])

\* the forEach over intervals: frequencyMap[interval] is the number of occurrences
\* so far; the first interval to reach a new maximum becomes commonInterval
RECURSIVE CommonIntervalLoop(_, _, _, _)
CommonIntervalLoop(intervals, i, maxFrequency, commonInterval) ==
    IF i > Len(intervals) THEN commonInterval
    ELSE LET frequency == Cardinality({j \in 1..i : intervals[j] = intervals[i]})
         IN IF frequency > maxFrequency
            THEN CommonIntervalLoop(intervals, i + 1, frequency, intervals[i])
            ELSE CommonIntervalLoop(intervals, i + 1, maxFrequency, commonInterval)

CommonInterval(intervals) == CommonIntervalLoop(intervals, 1, 0, 1)

TradingDays(zone, recentDates) ==
    {GetDay(zone, NewDate(recentDates[i])) : i \in 1..Len(recentDates)}

FutureDateStr(utc) == ToISODate(utc)

RECURSIVE FutureLoop(_, _, _, _, _, _)
FutureLoop(zone, currentDate, commonInterval, tradingDays, steps, futureDates) ==
    IF Len(futureDates) >= steps THEN futureDates
    ELSE LET next == SetDatePlus(zone, currentDate, commonInterval)
         IN FutureLoop(zone, next, commonInterval, tradingDays, steps,
                       IF GetDay(zone, next) \in tradingDays
                       THEN Append(futureDates, FutureDateStr(next))
                       ELSE futureDates)

GenerateFutureTradingDates(zone, dates, steps) ==
    IF Len(dates) < 2 THEN <<>>
    ELSE LET recentDates == RecentDates(dates)
             commonInterval == CommonInterval(Intervals(recentDates))
             tradingDays == TradingDays(zone, recentDates)
             lastDate == NewDate(dates[Len(dates)])
         IN FutureLoop(zone, lastDate, commonInterval, tradingDays, steps, <<>>)

----------------------------------------------------------------------------
(* calculateRSI, src/lib/utils.ts:52-106 *)

RsiInsufficient_Strict(data, period) == Len(data) < period

RsiInsufficient(data, period) == Len(data) <= period

Gains(closes) ==
    Arr([i \in Upto(Len(closes) - 1) |->
        LET difference == Sub(closes[i + 1], closes[i])
        IN IF Lt(R(0), difference) THEN difference ELSE R(0)])

Losses(closes) ==
    Arr([i \in Upto(Len(closes) - 1) |->
        LET difference == Sub(closes[i + 1], closes[i])
        IN IF Lt(difference, R(0)) THEN AbsN(difference) ELSE R(0)])

InitialAverage(xs, period) == Div(SumSeq(Slice(xs, 0, period)), R(period))

Smoothed(avg, x, period) == Div(Add(Mul(avg, R(period - 1)), x), R(period))

RelativeStrength_NoEpsilon(avgGain, avgLoss) == Div(avgGain, avgLoss)

RelativeStrength(avgGain, avgLoss) ==
    Div(avgGain, IF Eq(avgLoss, R(0)) THEN <<1, 1000>> ELSE avgLoss)

RsiValue(avgGain, avgLoss) ==
    Sub(R(100), Div(R(100), Add(R(1), RelativeStrength(avgGain, avgLoss))))

RsiRowDate_PreviousPoint(data, i) == DateAt(data, i)

\* the date of the row pushed in loop round i (i = period - 1 is the first row)
RsiRowDate(data, i) == DateAt(data, i + 1)

RECURSIVE RsiLoop(_, _, _, _, _, _, _, _)
RsiLoop(data, gains, losses, period, i, avgGain, avgLoss, rows) ==
    IF i >= Len(gains) THEN rows
    ELSE LET g == Smoothed(avgGain, At(gains, i), period)
             l == Smoothed(avgLoss, At(losses, i), period)
         IN RsiLoop(data, gains, losses, period, i + 1, g, l,
                    Append(rows, [date |-> RsiRowDate(data, i),
                                  value |-> ToFixed(RsiValue(g, l), 2)]))

\* [err |-> "" or the error thrown, rows |-> the rows returned]
CalculateRSI(data, period) ==
    IF RsiInsufficient(data, period) THEN [err |-> "insufficient", rows |-> <<>>]
    ELSE IF RsiRowDate(data, period - 1) = UndefinedDate THEN [err |-> "TypeError", rows |-> <<>>]
    ELSE LET closes == Closes(data)
             gains == Gains(closes)
             losses == Losses(closes)
             avgGain == InitialAverage(gains, period)
             avgLoss == InitialAverage(losses, period)
             first == [date |-> RsiRowDate(data, period - 1),
                       value |-> ToFixed(RsiValue(avgGain, avgLoss), 2)]
         IN [err |-> "",
             rows |-> RsiLoop(data, gains, losses, period, period, avgGain, avgLoss, <<first>>)]

\* runRSIAnalysis, RSIAnalysis component (src/unnamed/part_003:37-60)
RunRSIAnalysis ==
    /\ UNCHANGED <<liveTensors, runs>>
    /\ pc = "idle"
    /\ selectedStock # ""
    /\ pc' = "done"
    /\ IF selectedStock \notin DOMAIN stocks
       THEN error' = "not found" /\ UNCHANGED results
       ELSE LET r == CalculateRSI(stocks[selectedStock], params.period)
            IN IF r.err # ""
               THEN error' = r.err /\ UNCHANGED results
               ELSE error' = "" /\ results' = r.rows
    /\ UNCHANGED <<stocks, selectedStock, featureStocks, params, tz, auxResults,
                   chiSquareResults, cointegrationResults>>

InitRSI ==
    /\ liveTensors = {}
    /\ runs = <<>>
    /\ stocks \in {[s \in {"A"} |-> DataOf(c)] : c \in SeqsUpTo(1..MaxClose, MaxLen)}
    /\ selectedStock \in {"A", "Z"}
    /\ featureStocks = <<>>
    /\ params \in {[period |-> p] : p \in 1..MaxPeriod}
    /\ tz = NoTz
    /\ results = <<>>
    /\ auxResults = <<>>
    /\ chiSquareResults = <<>>
    /\ cointegrationResults = <<>>
    /\ error = ""
    /\ pc = "idle"

SpecRSI == InitRSI /\ [][RunRSIAnalysis]_vars

RsiData == stocks["A"]
RsiRan == pc = "done" /\ selectedStock = "A"

\* C3: with period >= 1 and len(series) > period, calculateRSI returns exactly
\* len(series) - period rows and row k (from 0) carries the date of input point
\* period + k
C3_RsiRowsAndDates ==
    (RsiRan /\ Len(RsiData) > params.period) =>
        /\ error = ""
        /\ Len(results) = Len(RsiData) - params.period
        /\ \A k \in 0..(Len(results) - 1) :
              results[k + 1].date = RsiData[params.period + k + 1].date

C3_Witness ==
    /\ RsiRan
    /\ params.period = 2
    /\ Len(RsiData) = 5
    /\ Len(results) = 3
    /\ results[3].date = RsiData[5].date

\* C4: every value returned by calculateRSI lies in [0, 100], also when the
\* average loss is zero (the 0.001 epsilon) and when the series is flat
C4_RsiInRange ==
    (RsiRan /\ error = "") =>
        \A k \in 1..Len(results) :
            Le(R(0), results[k].value) /\ Le(results[k].value, R(100))

\* a flat series: average gain and average loss are both zero in every row
C4_Witness ==
    /\ RsiRan
    /\ error = ""
    /\ Len(results) >= 2
    /\ \A i \in 1..Len(RsiData) : RsiData[i].close = RsiData[1].close

\* C5: calculateRSI ends in the insufficient-data error, with no row, exactly
\* when len(series) <= period
C5_RsiInsufficientData ==
    RsiRan =>
        /\ (error = "insufficient") <=> (Len(RsiData) <= params.period)
        /\ (Len(RsiData) <= params.period) => results = <<>>
        /\ (Len(RsiData) > params.period) => (error = "" /\ results # <<>>)

C5_Witness ==
    /\ RsiRan
    /\ Len(RsiData) = params.period
    /\ error = "insufficient"
    /\ results = <<>>

----------------------------------------------------------------------------
(* calculateEMA and calculateMACD, src/lib/utils.ts:109-176 *)

RECURSIVE EmaLoop(_, _, _, _)
EmaLoop(data, k, i, emaResults) ==
    IF i >= Len(data) THEN emaResults
    ELSE LET ema == Add(Mul(At(data, i), k),
                        Mul(At(emaResults, Len(emaResults) - 1), Sub(R(1), k)))
         IN EmaLoop(data, k, i + 1, Append(emaResults, ema))

CalculateEMA(data, period) ==
    LET k == Div(R(2), R(period + 1))
        sma == Div(SumSeq(Slice(data, 0, period)), R(period))
    IN EmaLoop(data, k, period, <<sma>>)

\* the index pairs <<i, slowIndex>> the MACD-line loop subtracts at
MacdLinePairs(fastLen, slowLen) ==
    LET kept == {i \in 0..(fastLen - 1) : i >= slowLen - fastLen}
        first == IF slowLen - fastLen > 0 THEN slowLen - fastLen ELSE 0
    IN [j \in 1..Cardinality(kept) |->
            <<first + j - 1, (first + j - 1) - (slowLen - fastLen)>>]

MacdLine(fastEMA, slowEMA) ==
    LET pairs == MacdLinePairs(Len(fastEMA), Len(slowEMA))
    IN Arr([j \in 1..Len(pairs) |-> Sub(At(fastEMA, pairs[j][1]), At(slowEMA, pairs[j][2]))])

Histogram(macdLine, signalLine) ==
    Arr([j \in 1..Len(signalLine) |->
        Sub(At(macdLine, (j - 1) + (Len(macdLine) - Len(signalLine))), signalLine[j])])

MacdInsufficient(data, slowPeriod, signalPeriod) == Len(data) <= slowPeriod + signalPeriod

CalculateMACD(data, fastPeriod, slowPeriod, signalPeriod) ==
    IF MacdInsufficient(data, slowPeriod, signalPeriod)
    THEN [err |-> "insufficient", rows |-> <<>>]
    ELSE LET closes == Closes(data)
             fastEMA == CalculateEMA(closes, fastPeriod)
             slowEMA == CalculateEMA(closes, slowPeriod)
             macdLine == MacdLine(fastEMA, slowEMA)
             signalLine == CalculateEMA(macdLine, signalPeriod)
             histogram == Histogram(macdLine, signalLine)
             startIndex == Len(data) - Len(histogram)
         IN IF \E i \in 0..(Len(histogram) - 1) : DateAt(data, startIndex + i) = UndefinedDate
            THEN [err |-> "TypeError", rows |-> <<>>]
            ELSE [err |-> "",
                  rows |-> [j \in 1..Len(histogram) |->
                               [date |-> DateAt(data, startIndex + j - 1),
                                value |-> ToFixed(histogram[j], 4)]]]

\* runMACDAnalysis, MACDAnalysis component (src/unnamed/part_004:31-66)
RunMACDAnalysis ==
    /\ UNCHANGED <<liveTensors, runs>>
    /\ pc = "idle"
    /\ selectedStock # ""
    /\ pc' = "done"
    /\ IF selectedStock \notin DOMAIN stocks
       THEN error' = "not found" /\ UNCHANGED results
       ELSE LET r == CalculateMACD(stocks[selectedStock], params.fastPeriod,
                                   params.slowPeriod, params.signalPeriod)
            IN IF r.err # ""
               THEN error' = r.err /\ UNCHANGED results
               ELSE error' = "" /\ results' = r.rows
    /\ UNCHANGED <<stocks, selectedStock, featureStocks, params, tz, auxResults,
                   chiSquareResults, cointegrationResults>>

InitMACD ==
    /\ liveTensors = {}
    /\ runs = <<>>
    /\ stocks \in {[s \in {"A"} |-> DataOf(c)] : c \in SeqsUpTo(1..MaxClose, MaxLen)}
    /\ selectedStock \in {"A", "Z"}
    /\ featureStocks = <<>>
    /\ params \in {[fastPeriod |-> f, slowPeriod |-> sl, signalPeriod |-> sg] :
                      f \in 1..MaxPeriod, sl \in 1..MaxPeriod, sg \in 1..MaxPeriod}
    /\ tz = NoTz
    /\ results = <<>>
    /\ auxResults = <<>>
    /\ chiSquareResults = <<>>
    /\ cointegrationResults = <<>>
    /\ error = ""
    /\ pc = "idle"

SpecMACD == InitMACD /\ [][RunMACDAnalysis]_vars

MacdData == stocks["A"]
MacdRan ==
    /\ pc = "done"
    /\ selectedStock = "A"
    /\ params.fastPeriod < params.slowPeriod
    /\ Len(MacdData) > params.slowPeriod + params.signalPeriod

\* C1: with fast < slow and len(series) > slow + signal, calculateMACD returns
\* exactly len(series) - slow - signal + 1 histogram rows
C1_MacdHistogramLength ==
    MacdRan =>
        (error = "" /\ Len(results) = Len(MacdData) - params.slowPeriod - params.signalPeriod + 1)

\* C2: with fast < slow every MACD-line entry subtracts a slowEMA element that
\* exists and that belongs to the same input price index as the fastEMA element
\* (EMA element j of period n belongs to price index j + n - 1), and every
\* histogram value returned is a defined number
C2_MacdAlignedAndDefined ==
    MacdRan =>
        LET closes == Closes(MacdData)
            fastLen == Len(CalculateEMA(closes, params.fastPeriod))
            slowLen == Len(CalculateEMA(closes, params.slowPeriod))
            pairs == MacdLinePairs(fastLen, slowLen)
        IN /\ \A j \in 1..Len(pairs) :
                /\ pairs[j][2] >= 0 /\ pairs[j][2] < slowLen
                /\ pairs[j][1] + params.fastPeriod - 1 = pairs[j][2] + params.slowPeriod - 1
           /\ \A j \in 1..Len(results) : IsFinite(results[j].value)

----------------------------------------------------------------------------
(* generateFutureTradingDates applied to bounded histories *)

RECURSIVE DaysFrom(_, _)
DaysFrom(start, gaps) ==
    IF Len(gaps) = 0 THEN <<start>>
    ELSE LET before == DaysFrom(start, SubSeq(gaps, 1, Len(gaps) - 1))
         IN Append(before, before[Len(before)] + gaps[Len(gaps)])

\* histories of strictly increasing days: free gaps from a free weekday
ShortHistories == {DaysFrom(s, g) : s \in 0..6, g \in SeqsUpTo(1..MaxGap, MaxGaps)}

\* a short history followed by RecentWindow Monday-to-Friday trading days, so that
\* the short head lies outside the window of recent dates
LongHistory(head) ==
    LET monday == 7 * ((head[Len(head)] \div 7) + 1)
    IN head \o [i \in 1..RecentWindow |-> monday + TradingDay(i - 1)]

Histories == ShortHistories \cup {LongHistory(h) : h \in ShortHistories}

DataOn(days) == [i \in 1..Len(days) |-> [date |-> DateStr(days[i]), close |-> 1]]

RunGenerateFutureTradingDates ==
    /\ UNCHANGED <<liveTensors, runs>>
    /\ pc = "idle"
    /\ pc' = "done"
    /\ results' = GenerateFutureTradingDates(tz, Dates(stocks["A"]), params.forecastSteps)
    /\ UNCHANGED <<stocks, selectedStock, featureStocks, params, tz, auxResults, error,
                   chiSquareResults, cointegrationResults>>

InitDates ==
    /\ liveTensors = {}
    /\ runs = <<>>
    /\ stocks \in {[s \in {"A"} |-> DataOn(h)] : h \in Histories}
    /\ selectedStock = "A"
    /\ featureStocks = <<>>
    /\ params \in {[forecastSteps |-> n] : n \in 0..MaxSteps}
    /\ tz \in TimeZones
    /\ results = <<>>
    /\ auxResults = <<>>
    /\ chiSquareResults = <<>>
    /\ cointegrationResults = <<>>
    /\ error = ""
    /\ pc = "idle"

SpecDates == InitDates /\ [][RunGenerateFutureTradingDates]_vars

HistoryDates == Dates(stocks["A"])
RecentWeekdays == {Weekday(RecentDates(HistoryDates)[i]) : i \in 1..Len(RecentDates(HistoryDates))}

\* C7: every date returned by generateFutureTradingDates has a weekday that
\* occurs among the (up to) last 20 historical dates
C7_FutureDatesOnObservedWeekdays ==
    pc = "done" => \A i \in 1..Len(results) : Weekday(results[i]) \in RecentWeekdays

----------------------------------------------------------------------------
(* VARAnalysis, src/unnamed/part_006 (the forecast path of                  *)
(* src/components/Analysis/VAR.tsx is the same code without the normalized  *)
(* series)                                                                   *)

VarWindow == 100
LagCap == 5
MinTrendLength == 10

\* x || 0: NaN and 0 are falsy
OrZero(x) == IF IsNaN(x) \/ Num(x) = R(0) THEN R(0) ELSE x

\* stock.data.slice(-100).map((d) => d.close)
LastPrices(data) ==
    LET closes == Closes(data)
        n == IF VarWindow < Len(closes) THEN VarWindow ELSE Len(closes)
    IN SubSeq(closes, Len(closes) - n + 1, Len(closes))

NormalizeToLastValue(data) ==
    LET lastValue == At(data, Len(data) - 1)
    IN Arr([i \in 1..Len(data) |-> Div(data[i], lastValue)])

NeedsDifferencing(data) ==
    LET n == Len(data)
        sumX == SumSeq(Arr([i \in 1..n |-> R(i - 1)]))
        sumY == SumSeq(data)
        sumXY == SumSeq(Arr([i \in 1..n |-> Mul(R(i - 1), data[i])]))
        sumX2 == SumSeq(Arr([i \in 1..n |-> R((i - 1) * (i - 1))]))
        slope == Div(Sub(Mul(R(n), sumXY), Mul(sumX, sumY)),
                     Sub(Mul(R(n), sumX2), Mul(sumX, sumX)))
        avgY == Div(sumY, R(n))
        trendStrength == AbsN(Div(Mul(slope, R(n)), avgY))
    IN IF n < MinTrendLength THEN FALSE ELSE Lt(<<1, 10>>, trendStrength)

ApplyDifferencing(data) ==
    Arr([i \in Upto(Len(data) - 1) |-> Sub(data[i + 1], data[i])])

\* data[j][t] with the source's 0-based series and time indices
Obs(data, j, t) == At(data[j + 1], t)

\* coefficients[l][j] before the row is rescaled
RawCoefficient(data, targetIndex, lag, l, j) ==
    LET stockLength == Len(data[1])
        terms == Arr([k \in Upto(stockLength - lag) |->
                    LET t == lag + k - 1
                    IN Mul(Sub(Obs(data, targetIndex, t), Obs(data, targetIndex, t - 1)),
                           OrZero(Sub(Obs(data, j, t - l - 1), Obs(data, j, t - l - 2))))])
    IN IF Len(terms) > 0 THEN Div(SumSeq(terms), R(Len(terms))) ELSE R(0)

\* coefficients[l] after the rescaling by 0.5 / scale
CoefficientRow(data, targetIndex, lag, l) ==
    LET numStocks == Len(data)
        raw == Arr([j \in 1..numStocks |-> RawCoefficient(data, targetIndex, lag, l, j - 1)])
        scale == SumSeq(Arr([j \in 1..numStocks |-> AbsN(raw[j])]))
    IN IF Lt(R(0), scale)
       THEN Arr([j \in 1..numStocks |-> Mul(Div(raw[j], scale), <<1, 2>>)])
       ELSE raw

Coefficients(data, targetIndex, lag) ==
    Arr([l \in 1..lag |-> CoefficientRow(data, targetIndex, lag, l - 1)])

\* latestValues before the first step: entry i holds data[s][stockLength - 1 - i]
InitialLatestValues(data, lag) ==
    LET stockLength == Len(data[1])
    IN Arr([i \in 1..(lag + 1) |->
               Arr([s \in 1..Len(data) |-> Obs(data, s - 1, stockLength - i)])])

PredictedChange(latestValues, coefficients, lag, numStocks) ==
    SumSeq(Arr([l \in 1..lag |->
              IF l >= Len(latestValues) THEN R(0)
              ELSE SumSeq(Arr([j \in 1..numStocks |->
                             Mul(Sub(latestValues[l][j], latestValues[l + 1][j]),
                                 coefficients[l][j])]))]))

NextValues(latestValues, targetIndex, nextValue, numStocks) ==
    Arr([s \in 1..numStocks |->
        IF s - 1 = targetIndex THEN nextValue
        ELSE Add(latestValues[1][s], Sub(latestValues[1][s], latestValues[2][s]))])

RECURSIVE ForecastLoop(_, _, _, _, _, _, _)
ForecastLoop(latestValues, coefficients, targetIndex, lag, numStocks, steps, predictions) ==
    IF Len(predictions) >= steps THEN predictions
    ELSE LET change == PredictedChange(latestValues, coefficients, lag, numStocks)
             nextValue == Add(latestValues[1][targetIndex + 1], change)
             nextValues == NextValues(latestValues, targetIndex, nextValue, numStocks)
             unshifted == <<nextValues>> \o latestValues
             kept == IF Len(unshifted) > lag + 1
                     THEN SubSeq(unshifted, 1, Len(unshifted) - 1)
                     ELSE unshifted
         IN ForecastLoop(kept, coefficients, targetIndex, lag, numStocks, steps,
                         Append(predictions, nextValue))

SimpleVarForecast(data, targetIndex, lag, steps) ==
    ForecastLoop(InitialLatestValues(data, lag), Coefficients(data, targetIndex, lag),
                 targetIndex, lag, Len(data), steps, <<>>)

\* cumulative.slice(1): the running sums of the predicted differences from the
\* last actual value
Cumulative(lastActualValue, predictions) ==
    Arr([k \in 1..Len(predictions) |-> Add(lastActualValue, SumSeq(SubSeq(predictions, 1, k)))])

ForecastPrediction_NoAnchor(lastActualValue, predictions, i) == At(predictions, i)

\* the prediction of forecast row i (from 0)
ForecastPrediction(lastActualValue, predictions, i) ==
    IF i = 0 THEN lastActualValue ELSE At(predictions, i - 1)

\* formatAnalysisResults of the VAR component (src/unnamed/part_006:168-200)
FormatVarResults(dates, values, futureDates, predictions) ==
    LET lastActualValue == At(values, Len(values) - 1)
    IN Arr([i \in 1..Len(values) |->
            [date |-> At(dates, i - 1), value |-> values[i], prediction |-> Undefined]])
       \o Arr([i \in 1..Len(predictions) |->
            [date |-> At(futureDates, i - 1), value |-> Null,
             prediction |-> ForecastPrediction(lastActualValue, predictions, i - 1)]])

AllAnalysisStocks == <<selectedStock>> \o featureStocks

VarLag == IF params.lag < LagCap THEN params.lag ELSE LagCap

\* processedData / processedNormalizedData: series i is differenced when
\* needsDifferencing(stockPrices[i]) holds
ProcessedData(stockPrices, prices) ==
    Arr([i \in 1..Len(prices) |->
        IF NeedsDifferencing(stockPrices[i]) THEN ApplyDifferencing(prices[i]) ELSE prices[i]])

\* finalPredictions: un-differenced when the target series was differenced
FinalPredictions(stockPrices, prices, targetIndex) ==
    LET predictions == SimpleVarForecast(ProcessedData(stockPrices, prices), targetIndex,
                                         VarLag, params.forecastSteps)
    IN IF NeedsDifferencing(stockPrices[targetIndex + 1])
       THEN Cumulative(At(prices[targetIndex + 1], Len(prices[targetIndex + 1]) - 1),
                       predictions)
       ELSE predictions

\* handleStartAnalysis of the VAR component (src/unnamed/part_006:440-570)
HandleStartVarAnalysis ==
    /\ UNCHANGED <<liveTensors, runs>>
    /\ pc = "idle"
    /\ pc' = "done"
    /\ IF selectedStock = ""
       THEN error' = "no target" /\ UNCHANGED <<results, auxResults>>
       ELSE IF \E i \in 1..Len(AllAnalysisStocks) : AllAnalysisStocks[i] \notin DOMAIN stocks
       THEN error' = "not found" /\ UNCHANGED <<results, auxResults>>
       ELSE LET selectedStocksData == Arr([i \in 1..Len(AllAnalysisStocks) |-> stocks[AllAnalysisStocks[i]]])
                stockPrices == Arr([i \in 1..Len(selectedStocksData) |-> LastPrices(selectedStocksData[i])])
                normalizedPrices == Arr([i \in 1..Len(stockPrices) |-> NormalizeToLastValue(stockPrices[i])])
                targetIndex == 0
                originalDates == Dates(selectedStocksData[targetIndex + 1])
                futureDates == GenerateFutureTradingDates(tz, originalDates, params.forecastSteps + 1)
            IN /\ error' = ""
               /\ results' = FormatVarResults(originalDates, stockPrices[targetIndex + 1], futureDates,
                                              FinalPredictions(stockPrices, stockPrices, targetIndex))
               /\ auxResults' = FormatVarResults(originalDates, normalizedPrices[targetIndex + 1], futureDates,
                                                 FinalPredictions(stockPrices, normalizedPrices, targetIndex))
    /\ UNCHANGED <<stocks, selectedStock, featureStocks, params, tz,
                   chiSquareResults, cointegrationResults>>

Ramp == [i \in 1..MinTrendLength |-> i]
Flat == [i \in 1..MinTrendLength |-> 1]

\* target series: every short series, a rising or a flat run of 10 points
\* followed by a free tail (long enough for the trend test to apply), and a
\* series longer than the window
\* one point more than the window: a first close that differs from the rest
LongCloses == [i \in 1..(VarWindow + 1) |-> IF i = 1 THEN 2 ELSE 1]

TargetCloses ==
    SeqsUpTo(1..VarMaxClose, VarMaxLen)
    \cup {pre \o tail : pre \in {Ramp, Flat}, tail \in SeqsUpTo(1..VarMaxClose, VarMaxTail)}
    \cup {LongCloses}

FeatureCloses == SeqsUpTo(1..VarMaxClose, VarMaxFeatureLen) \cup {Ramp, Flat}

InitVAR ==
    /\ liveTensors = {}
    /\ runs = <<>>
    /\ stocks \in {[s \in {"A", "B"} |-> IF s = "A" THEN DataOf(a) ELSE DataOf(b)] :
                      a \in TargetCloses, b \in FeatureCloses}
    /\ selectedStock \in {"A", ""}
    /\ featureStocks \in {<<>>, <<"B">>, <<"Z">>}
    /\ params \in {[lag |-> l, forecastSteps |-> n] : l \in 1..VarMaxLag, n \in 0..VarMaxSteps}
    /\ tz \in {UTC}
    /\ results = <<>>
    /\ auxResults = <<>>
    /\ chiSquareResults = <<>>
    /\ cointegrationResults = <<>>
    /\ error = ""
    /\ pc = "idle"

SpecVAR == InitVAR /\ [][HandleStartVarAnalysis]_vars

VarTargetPrices == LastPrices(stocks["A"])
VarRan == pc = "done" /\ error = "" /\ selectedStock = "A"
\* the forecast rows of a VAR timeline: the rows after the historical ones
VarForecastRows(timeline) == SubSeq(timeline, Len(VarTargetPrices) + 1, Len(timeline))
VarStockPrices ==
    Arr([i \in 1..Len(AllAnalysisStocks) |-> LastPrices(stocks[AllAnalysisStocks[i]])])
\* the forecaster's own output on the processed raw-price series
VarRawPredictions ==
    SimpleVarForecast(ProcessedData(VarStockPrices, VarStockPrices), 0, VarLag, params.forecastSteps)
\* step prediction k (from 1) on the price scale
VarStepPrediction(k) ==
    IF NeedsDifferencing(VarTargetPrices)
    THEN Add(VarTargetPrices[Len(VarTargetPrices)], SumSeq(SubSeq(VarRawPredictions, 1, k)))
    ELSE VarRawPredictions[k]

\* C6: in the VAR timeline for steps >= 1 the first forecast row's prediction is
\* the last historical value of the target, and forecast row k >= 1 carries the
\* model's un-differenced step prediction number k
C6_VarAnchorAndStepPredictions ==
    (VarRan /\ params.forecastSteps >= 1 /\ Len(VarTargetPrices) >= 1) =>
        LET rows == VarForecastRows(results)
            normalizedRows == VarForecastRows(auxResults)
        IN /\ Len(rows) >= 1
           /\ rows[1].prediction = VarTargetPrices[Len(VarTargetPrices)]
           /\ normalizedRows[1].prediction = Div(VarTargetPrices[Len(VarTargetPrices)],
                                                  VarTargetPrices[Len(VarTargetPrices)])
           /\ \A k \in 1..(Len(rows) - 1) : rows[k + 1].prediction = VarStepPrediction(k)

\* a differenced target with a feature series and three steps
C6_Witness ==
    /\ VarRan
    /\ params.forecastSteps = 3
    /\ featureStocks = <<"B">>
    /\ NeedsDifferencing(VarTargetPrices)
    /\ Len(VarForecastRows(results)) = 3
    /\ IsFinite(VarForecastRows(results)[3].prediction)
    /\ VarForecastRows(results)[3].prediction # VarForecastRows(results)[2].prediction

----------------------------------------------------------------------------
(* ARIMAAnalysis (src/unnamed/part_007) and GARCHAnalysis                    *)
(* (src/components/Analysis/GARCH.tsx). The trained network is a black box:  *)
(* each of its outputs is drawn from NetworkOutputs, and is NaN when the     *)
(* series it was trained on holds a NaN                                      *)

NetworkOutputs == {R(0), R(1)}

MinOf(data) == CHOOSE x \in {data[i] : i \in 1..Len(data)} :
                   \A j \in 1..Len(data) : ~Lt(data[j], x)
MaxOf(data) == CHOOSE x \in {data[i] : i \in 1..Len(data)} :
                   \A j \in 1..Len(data) : ~Lt(x, data[j])

\* prepareARIMAData: the closes differenced d times
RECURSIVE PrepareARIMADataLoop(_, _)
PrepareARIMADataLoop(prices, d) ==
    IF d = 0 THEN prices
    ELSE PrepareARIMADataLoop(
             Arr([j \in Upto(Len(prices) - 1) |-> Sub(prices[j + 1], prices[j])]), d - 1)

PrepareARIMAData(data, d) == PrepareARIMADataLoop(Closes(data), d)

\* normalizeData: (x - min) / (max - min), with min and max
NormalizeData(data) ==
    LET min == MinOf(data)
        max == MaxOf(data)
    IN [data |-> Arr([i \in 1..Len(data) |-> Div(Sub(data[i], min), Sub(max, min))]),
        min |-> min, max |-> max]

\* denormalizeData: x * (max - min) + min
DenormalizeData(normalizedData, min, max) ==
    Arr([i \in 1..Len(normalizedData) |-> Add(Mul(normalizedData[i], Sub(max, min)), min)])

\* the forecasts a network trained on series can return for the given steps
ModelForecasts(series, steps) ==
    IF \E i \in 1..Len(series) : IsNaN(series[i])
    THEN {[i \in 1..steps |-> NaN]}
    ELSE [1..steps -> NetworkOutputs]

Lag(p, q) == IF p > q THEN p ELSE q

\* the running sum that undoes one differencing, starting from lastActual
RECURSIVE Undifference(_, _)
Undifference(lastActual, diffs) ==
    IF Len(diffs) = 0 THEN <<>>
    ELSE LET prediction == Add(lastActual, diffs[1])
         IN <<prediction>> \o Undifference(prediction, Tail(diffs))

\* generateFutureDates (src/unnamed/part_007:70-81): the next `days` calendar days
GenerateFutureDates(zone, startDate, days) ==
    Arr([i \in 1..days |-> ToISODate(SetDatePlus(zone, NewDate(startDate), i))])

\* formatAnalysisResults of the ARIMA component (src/unnamed/part_007:84-110)
FormatArimaResults(dates, values, futureDates, predictions) ==
    Arr([i \in 1..Len(values) |->
            [date |-> At(dates, i - 1), value |-> values[i], prediction |-> Undefined]])
    \o Arr([i \in 1..Len(predictions) |->
            [date |-> At(futureDates, i - 1), value |-> Null, prediction |-> predictions[i]]])

\* The tensors and models a call allocates, each named <<expression, step>>.
\* normalizeData allocates five tensors and disposes none
NormalizeDataAllocated ==
    {<<"tensor", 0>>, <<"tensor.min()", 0>>, <<"tensor.max()", 0>>, <<"tensor.sub(min)", 0>>,
     <<"normalizedTensor", 0>>}

\* what normalizeData leaves behind when the caller fails afterwards: on an
\* empty series the reductions may fail after the first allocation
NormalizeDataLeft(data) ==
    IF Len(data) = 0 THEN {{<<"tensor", 0>>}, NormalizeDataAllocated}
    ELSE {NormalizeDataAllocated}

\* denormalizeData of an array allocates three tensors and disposes none
DenormalizeDataAllocated ==
    {<<"tf.tensor(normalizedData)", 0>>, <<"tensor.mul(max - min)", 0>>, <<"denormalized", 0>>}

\* the tensors of the forecast loop, one of each name per step
StepTensors(names, steps) == {<<name, i>> : name \in names, i \in 1..steps}

\* trainARIMAModel: X, y, the model and each step's input and prediction
TrainARIMAAllocated(steps) ==
    {<<"X", 0>>, <<"y", 0>>, <<"model", 0>>} \cup StepTensors({"input", "prediction"}, steps)
\* disposed in the loop (input, prediction) and after it (X, y, model)
TrainARIMADisposed(steps) ==
    StepTensors({"input", "prediction"}, steps) \cup {<<"X", 0>>, <<"y", 0>>, <<"model", 0>>}

\* trainGARCHModel: X, both targets, both models and each step's tensors
TrainGARCHAllocated(steps) ==
    {<<"X", 0>>, <<"yReturns", 0>>, <<"yVol", 0>>, <<"returnsModel", 0>>, <<"volModel", 0>>}
    \cup StepTensors({"input", "returnPred", "volPred"}, steps)
TrainGARCHDisposed(steps) ==
    StepTensors({"input", "returnPred", "volPred"}, steps)
    \cup {<<"X", 0>>, <<"yReturns", 0>>, <<"yVol", 0>>, <<"returnsModel", 0>>, <<"volModel", 0>>}

\* handleStartAnalysis of the ARIMA component (src/unnamed/part_007:258-330)
HandleStartArimaAnalysis ==
    /\ UNCHANGED runs
    /\ pc = "idle"
    /\ pc' = "arima"
    /\ IF selectedStock = ""
       THEN error' = "no target" /\ UNCHANGED <<results, liveTensors>>
       ELSE IF selectedStock \notin DOMAIN stocks
       THEN error' = "failed" /\ UNCHANGED <<results, liveTensors>>
       ELSE LET data == stocks[selectedStock]
                diffData == PrepareARIMAData(data, params.d)
            IN IF Len(diffData) <= Lag(params.p, params.q)
               THEN /\ error' = "failed"
                    /\ liveTensors' \in NormalizeDataLeft(diffData)
                    /\ UNCHANGED results
               ELSE LET normalized == NormalizeData(diffData)
                    IN \E predictions \in ModelForecasts(normalized.data, params.forecastSteps) :
                          LET denormalizedPredictions ==
                                  DenormalizeData(predictions, normalized.min, normalized.max)
                              actualPredictions ==
                                  IF params.d > 0
                                  THEN Undifference(R(data[Len(data)].close),
                                                    denormalizedPredictions)
                                  ELSE denormalizedPredictions
                              futureDates == GenerateFutureDates(tz, data[Len(data)].date,
                                                                 params.forecastSteps)
                          IN /\ error' = ""
                             /\ liveTensors' =
                                    (NormalizeDataAllocated
                                     \cup TrainARIMAAllocated(params.forecastSteps)
                                     \cup DenormalizeDataAllocated)
                                    \ TrainARIMADisposed(params.forecastSteps)
                             /\ results' = FormatArimaResults(Dates(data), Closes(data),
                                                              futureDates, actualPredictions)
    /\ UNCHANGED <<stocks, selectedStock, featureStocks, params, tz, auxResults,
                   chiSquareResults, cointegrationResults>>

\* formatAnalysisResults of src/lib/utils.ts:11-49: forecast row i is dated i + 1
\* calendar days after the last of dates
FormatAnalysisResults(zone, dates, values, predictions) ==
    Arr([i \in 1..Len(values) |->
            [date |-> At(dates, i - 1), value |-> values[i], prediction |-> Undefined]])
    \o Arr([i \in 1..Len(predictions) |->
            [date |-> ToISODate(SetDatePlus(zone, NewDate(dates[Len(dates)]), i)),
             value |-> Null, prediction |-> predictions[i]]])

\* the price ratios P[t] / P[t-1]; the log return is their logarithm
PriceRatios(prices) ==
    Arr([i \in Upto(Len(prices) - 1) |-> Div(prices[i + 1], prices[i])])

\* Math.sqrt(Math.abs(Math.log(ratio))): 0 for ratio 1 and otherwise the
\* irrational number written <<n, d, 1>> for the ratio n/d
SqrtAbsLog(ratio) == IF ratio = R(1) THEN R(0) ELSE <<ratio[1], ratio[2], 1>>

\* Math.exp of a denormalized predicted return: the outputs 0 and 1 denormalize to
\* the least and the greatest log return, whose exponentials are the least and
\* the greatest price ratio
PredictedRatio(output, ratios) ==
    IF IsNaN(output) \/ MinOf(ratios) = MaxOf(ratios) THEN NaN
    ELSE IF output = R(0) THEN MinOf(ratios) ELSE MaxOf(ratios)

\* currentPrice = currentPrice * Math.exp(ret) over the predicted returns
RECURSIVE PredictedPrices(_, _, _)
PredictedPrices(currentPrice, outputs, ratios) ==
    IF Len(outputs) = 0 THEN <<>>
    ELSE LET next == Mul(currentPrice, PredictedRatio(outputs[1], ratios))
         IN <<next>> \o PredictedPrices(next, Tail(outputs), ratios)

\* the series the GARCH networks are trained on: NaN when max = min
NormalizedReturns(ratios) ==
    Arr([i \in 1..Len(ratios) |-> IF MinOf(ratios) = MaxOf(ratios) THEN NaN ELSE ratios[i]])

\* runGARCHAnalysis (src/components/Analysis/GARCH.tsx:325-426)
RunGARCHAnalysis ==
    /\ UNCHANGED runs
    /\ pc = "idle"
    /\ pc' = "garch"
    /\ IF selectedStock = ""
       THEN error' = "no target" /\ UNCHANGED <<results, auxResults, liveTensors>>
       ELSE IF selectedStock \notin DOMAIN stocks
       THEN error' = "failed" /\ UNCHANGED <<results, auxResults, liveTensors>>
       ELSE LET data == stocks[selectedStock]
                prices == Closes(data)
                ratios == PriceRatios(prices)
            IN IF Len(ratios) <= Lag(params.p, params.q)
               THEN /\ error' = "failed"
                    /\ liveTensors' \in NormalizeDataLeft(ratios)
                    /\ UNCHANGED <<results, auxResults>>
               ELSE \E predictedReturns \in ModelForecasts(NormalizedReturns(ratios),
                                                           params.forecastSteps),
                       predictedVolatility \in ModelForecasts(NormalizedReturns(ratios),
                                                              params.forecastSteps) :
                       LET predictedPrices ==
                               PredictedPrices(prices[Len(prices)], predictedReturns, ratios)
                           forecastDates == GenerateFutureDates(tz, data[Len(data)].date,
                                                                params.forecastSteps)
                           volatilityDates == Tail(Dates(data)) \o forecastDates
                       IN /\ error' = ""
                          /\ liveTensors' =
                                 (NormalizeDataAllocated
                                  \cup TrainGARCHAllocated(params.forecastSteps)
                                  \cup DenormalizeDataAllocated)
                                 \ TrainGARCHDisposed(params.forecastSteps)
                          /\ results' = FormatAnalysisResults(tz, Dates(data), prices,
                                                              predictedPrices)
                          /\ auxResults' = FormatAnalysisResults(
                                 tz, volatilityDates,
                                 Arr([i \in 1..Len(ratios) |-> SqrtAbsLog(ratios[i])]),
                                 predictedVolatility)
    /\ UNCHANGED <<stocks, selectedStock, featureStocks, params, tz,
                   chiSquareResults, cointegrationResults>>

\* consecutive trading days from trading day `first`, with the given closes
DataFrom(first, closes) ==
    [i \in 1..Len(closes) |-> [date |-> DateStr(TradingDay(first + i - 1)), close |-> closes[i]]]

InitForecast ==
    /\ liveTensors = {}
    /\ runs = <<>>
    /\ stocks \in {[s \in {"A"} |-> DataFrom(first, closes)] :
                      first \in 0..4, closes \in SeqsUpTo(1..ForecastMaxClose, ForecastMaxLen)}
    /\ selectedStock \in {"A", "Z", ""}
    /\ featureStocks = <<>>
    /\ params \in {[p |-> p, d |-> d, q |-> q, forecastSteps |-> n] :
                      p \in 1..MaxOrder, d \in 0..MaxD, q \in 1..MaxOrder, n \in 0..MaxSteps}
    /\ tz \in {UTC, [before |-> 9, after |-> 9, at |-> 0]}
    /\ results = <<>>
    /\ auxResults = <<>>
    /\ chiSquareResults = <<>>
    /\ cointegrationResults = <<>>
    /\ error = ""
    /\ pc = "idle"

SpecForecast == InitForecast /\ [][HandleStartArimaAnalysis \/ RunGARCHAnalysis]_vars

ForecastRan == pc \in {"arima", "garch"} /\ error = "" /\ selectedStock = "A"
\* the rows of a timeline after the n historical ones
ForecastRows(timeline, n) == SubSeq(timeline, n + 1, Len(timeline))

\* C8: in the ARIMA and GARCH result timelines every forecast row's date has a
\* weekday that is present among the last 20 historical dates of the series
C8_ForecastDatesFollowTradingDays ==
    ForecastRan =>
        /\ \A row \in {ForecastRows(results, Len(HistoryDates))[i] :
                          i \in 1..(Len(results) - Len(HistoryDates))} :
               Weekday(row.date) \in RecentWeekdays
        /\ pc = "garch" =>
               \A row \in {ForecastRows(auxResults, Len(HistoryDates) - 1)[i] :
                              i \in 1..(Len(auxResults) - (Len(HistoryDates) - 1))} :
                   Weekday(row.date) \in RecentWeekdays

----------------------------------------------------------------------------
(* The chi-square ("Granger") screen and the cointegration screen of        *)
(* VARAnalysis, src/unnamed/part_006.  A result of Math.exp or Math.sqrt    *)
(* that is not a fraction is written either as an enclosure [lo, hi] of     *)
(* fractions (the chi-square pValue) or exactly, as <<n, d, 2>> for         *)
(* sqrt(n/d) and <<n, d, 3>> for exp(-sqrt(n/d) / 2)                         *)

GammaTerms == 100

\* categorize(curr, prev): 2 increase, 0 decrease, 1 otherwise
Categorize(curr, prev) == IF Lt(prev, curr) THEN 2 ELSE IF Lt(curr, prev) THEN 0 ELSE 1

\* createContingencyTable on series of equal length: table[cat1][cat2]
CreateContingencyTable(series1, series2) ==
    Arr([a \in 1..3 |-> Arr([b \in 1..3 |->
        Cardinality({i \in 2..Len(series1) :
                        /\ Categorize(series1[i], series1[i - 1]) = a - 1
                        /\ Categorize(series2[i], series2[i - 1]) = b - 1})])])

RECURSIVE SumInts(_)
SumInts(s) == IF Len(s) = 0 THEN 0 ELSE SumInts(SubSeq(s, 1, Len(s) - 1)) + s[Len(s)]

\* calculateExpectedFrequencies: rowSums[i] * colSums[j] / total
CalculateExpectedFrequencies(observed) ==
    LET rowSums == Arr([i \in 1..Len(observed) |-> SumInts(observed[i])])
        colSums == Arr([j \in 1..Len(observed[1]) |->
                           SumInts(Arr([i \in 1..Len(observed) |-> observed[i][j]]))])
        total == SumInts(rowSums)
    IN Arr([i \in 1..Len(observed) |-> Arr([j \in 1..Len(observed[i]) |->
               Div(R(rowSums[i] * colSums[j]), R(total))])])

\* calculateChiSquare: the cells with expected !== 0 (NaN included) contribute
CalculateChiSquare(observed, expected) ==
    SumSeq(Arr([i \in 1..Len(observed) |-> SumSeq(Arr([j \in 1..Len(observed[i]) |->
        IF expected[i][j] # R(0)
        THEN LET difference == Sub(R(observed[i][j]), expected[i][j])
             IN Div(Mul(difference, difference), expected[i][j])
        ELSE R(0)]))]))

\* u * n / d on fixed-point numbers of Precision digits, rounded down and up
FloorMul(u, n, d) == (u * n) \div d
CeilMul(u, n, d) == (u * n + d - 1) \div d

\* one round of the loop of gammaCDF on the bounds <<termLo, termHi, sumLo, sumHi>>
\* of term and sum: sum += term; term *= x / (a + i)
GammaRound(x, a, i, bounds) ==
    <<FloorMul(bounds[1], x[1], x[2] * (a + i)), CeilMul(bounds[2], x[1], x[2] * (a + i)),
      bounds[3] + bounds[1], bounds[4] + bounds[2]>>

\* the rounds i .. i + n - 1 of the loop of gammaCDF for x = n/d > 0, computed
\* half by half
RECURSIVE GammaSeriesLoop(_, _, _, _, _)
GammaSeriesLoop(x, a, i, n, bounds) ==
    IF n = 0 THEN bounds
    ELSE IF n = 1 THEN GammaRound(x, a, i, bounds)
    ELSE CHOOSE final \in
             {GammaSeriesLoop(x, a, i + (n \div 2), n - (n \div 2), half) :
                 half \in {GammaSeriesLoop(x, a, i, n \div 2, bounds)}} : TRUE

\* the terms k .. k + n - 1 of the Taylor series of exp(x), x = n/d > 0, added to
\* the bounds <<termLo, termHi, sumLo, sumHi>> of its term and its partial sum
RECURSIVE ExpSeriesLoop(_, _, _, _)
ExpSeriesLoop(x, k, n, bounds) ==
    IF n = 0 THEN bounds
    ELSE IF n = 1 THEN GammaRound(x, 1, k, bounds)
    ELSE CHOOSE final \in
             {ExpSeriesLoop(x, k + (n \div 2), n - (n \div 2), half) :
                 half \in {ExpSeriesLoop(x, k, n \div 2, bounds)}} : TRUE

\* Math.exp(-x) for x = n/d > 0: <<a lower, an upper bound>>; the terms after
\* ExpTerms at least halve when 2 * x <= ExpTerms
ExpNeg(x) ==
    IF 2 * x[1] > ExpTerms * x[2] THEN <<0, Precision>>
    ELSE CHOOSE enclosure \in
             {<<(Precision * Precision) \div (e[4] + 2 * e[2]),
                (Precision * Precision + e[3] - 1) \div e[3]>> :
                 e \in {ExpSeriesLoop(x, 0, ExpTerms, <<Precision, Precision, 0, 0>>)}} : TRUE

Exactly(x) == [lo |-> x, hi |-> x]

\* calculatePValue: 1 - gammaCDF(chiSquare / 2, df / 2), df even
CalculatePValue(chiSquare, df) ==
    LET x == Div(chiSquare, R(2))
        a == df \div 2
    IN IF Le(x, R(0)) THEN Exactly(R(1))
       ELSE IF ~IsFinite(x) THEN Exactly(NaN)
       ELSE CHOOSE pValue \in
                {[lo |-> Norm(FloorMul(FloorMul(FloorMul(exp[1], x[1], x[2]), x[1], x[2]),
                                       sum[3], Precision), Precision),
                  hi |-> Norm(CeilMul(CeilMul(CeilMul(exp[2], x[1], x[2]), x[1], x[2]),
                                      sum[4], Precision), Precision)] :
                    sum \in {GammaSeriesLoop(x, a, 0, GammaTerms, <<Precision \div a,
                                     (Precision + a - 1) \div a, 0, 0>>)},
                    exp \in {ExpNeg(x)}} : TRUE

\* the outcomes of pValue < bound for a pValue known up to its enclosure
LessThan(pValue, bound) ==
    IF IsNaN(pValue.lo) THEN {FALSE}
    ELSE IF Lt(pValue.hi, bound) THEN {TRUE}
    ELSE IF ~Lt(pValue.lo, bound) THEN {FALSE}
    ELSE BOOLEAN

\* analyzeRelationship without the 5% decision
AnalyzeRelationship(series1, series2) ==
    LET contingencyTable == CreateContingencyTable(series1, series2)
        expectedFrequencies == CalculateExpectedFrequencies(contingencyTable)
        chiSquare == CalculateChiSquare(contingencyTable, expectedFrequencies)
        df == (Len(contingencyTable) - 1) * (Len(contingencyTable[1]) - 1)
    IN [chiSquare |-> chiSquare, pValue |-> CalculatePValue(chiSquare, df)]

\* data.slice(1).map((val, i) => val - data[i])
Differences(data) == Arr([i \in Upto(Len(data) - 1) |-> Sub(data[i + 1], data[i])])

ChiSquareThrows(targetData, featureData) ==
    Len(targetData) # Len(featureData) \/ Len(targetData) < 2

\* the contingency table the chi-square screen builds for two price series
ScreenContingencyTable(targetData, featureData) ==
    CreateContingencyTable(Differences(targetData), Differences(featureData))

\* performChiSquareAnalysis, the decision hasRelationship being h
PerformChiSquareAnalysis(targetData, featureData, h) ==
    LET result == AnalyzeRelationship(Differences(targetData), Differences(featureData))
    IN [statistic |-> result.chiSquare, pValue |-> result.pValue, hasRelationship |-> h]

FivePercent == <<1, 20>>

\* the feature symbols of the selection that stocks.find finds
FoundFeatures ==
    IF selectedStock \in DOMAIN stocks
    THEN {featureStocks[i] : i \in 1..Len(featureStocks)} \cap DOMAIN stocks
    ELSE {}

\* onClick of the Granger button (src/unnamed/part_006:594-622)
RunChiSquareScreen ==
    /\ UNCHANGED <<liveTensors, runs>>
    /\ selectedStock # "" /\ Len(featureStocks) > 0
    /\ LET targetData == Closes(stocks[selectedStock])
           tested == {s \in FoundFeatures : ~ChiSquareThrows(targetData, Closes(stocks[s]))}
       IN \E h \in [tested -> BOOLEAN] :
             /\ \A s \in tested :
                   h[s] \in LessThan(AnalyzeRelationship(Differences(targetData),
                                                         Differences(Closes(stocks[s]))).pValue,
                                     FivePercent)
             /\ chiSquareResults' =
                    [s \in tested |-> PerformChiSquareAnalysis(targetData, Closes(stocks[s]), h[s])]
    /\ UNCHANGED <<stocks, selectedStock, featureStocks, params, tz, results, auxResults,
                   error, cointegrationResults, pc>>

\* Math.sqrt(q), written <<n, d, 2>> for a positive fraction n/d
SqrtOf(q) ==
    IF IsNaN(q) \/ Lt(q, R(0)) THEN NaN
    ELSE IF ~IsFinite(q) THEN PosInf
    ELSE IF q = R(0) THEN R(0)
    ELSE <<q[1], q[2], 2>>

\* Math.exp(-0.5 * statistic) for a statistic sqrt(n/d), written <<n, d, 3>>
ExpNegHalf(statistic) ==
    IF statistic = NaN THEN NaN
    ELSE IF statistic = PosInf THEN R(0)
    ELSE IF statistic = R(0) THEN R(1)
    ELSE <<statistic[1], statistic[2], 3>>

\* (2 ln 20)^2 = 35.8976..: exp(-0.5 * sqrt(q)) < 0.05 exactly when q exceeds it
CointegratedOutcomes(statisticSquared) ==
    IF IsNaN(statisticSquared) THEN {FALSE}
    ELSE IF Lt(<<35898, 1000>>, statisticSquared) THEN {TRUE}
    ELSE IF Lt(statisticSquared, <<35897, 1000>>) THEN {FALSE}
    ELSE BOOLEAN

\* residuals: targetData[i] - featureData[i] * (sum of diffTarget / sum of diffFeature)
CointegrationResiduals(targetData, featureData) ==
    LET ratio == Div(SumSeq(Differences(targetData)), SumSeq(Differences(featureData)))
    IN Arr([i \in 1..Len(targetData) |->
               Sub(targetData[i], Mul(At(featureData, i - 1), ratio))])

\* xs.reduce((sum, x, i) => sum + x * ys[i], 0)
SumProducts(xs, ys) == SumSeq(Arr([i \in 1..Len(xs) |-> Mul(xs[i], At(ys, i - 1))]))

\* the sum of Math.pow(y - beta * laggedResiduals[i], 2) over deltaResiduals
SquaredErrors(laggedResiduals, deltaResiduals, beta) ==
    SumSeq(Arr([i \in 1..Len(deltaResiduals) |->
                   LET e == Sub(deltaResiduals[i], Mul(beta, At(laggedResiduals, i - 1)))
                   IN Mul(e, e)]))

\* the square of Math.abs(beta / (se / Math.sqrt(sumX2))) for se = Math.sqrt(variance)
StatisticSquared(beta, variance, sumX2) ==
    IF IsNaN(variance) \/ Lt(variance, R(0)) \/ IsNaN(sumX2) THEN NaN
    ELSE Div(Mul(beta, beta), Div(variance, sumX2))

\* the t statistic, squared, of the regression with coefficient beta
TStatisticSquared(laggedResiduals, deltaResiduals, n, beta, sumX2) ==
    StatisticSquared(beta,
                     Div(SquaredErrors(laggedResiduals, deltaResiduals, beta), R(n - 2)),
                     sumX2)

\* beta = sumXY / sumX2
RegressionStatisticSquared(laggedResiduals, deltaResiduals, n, sumX2) ==
    TStatisticSquared(laggedResiduals, deltaResiduals, n,
                      Div(SumProducts(laggedResiduals, deltaResiduals), sumX2), sumX2)

\* the simplified ADF test on the residuals: laggedResiduals = residuals.slice(0, -1)
\* and deltaResiduals their differences
AdfStatisticSquared(laggedResiduals, deltaResiduals, n) ==
    RegressionStatisticSquared(laggedResiduals, deltaResiduals, n,
                               SumProducts(laggedResiduals, laggedResiduals))

ResidualsStatisticSquared(residuals) ==
    AdfStatisticSquared(Slice(residuals, 0, Len(residuals) - 1), Differences(residuals),
                        Len(residuals))

\* the square of the statistic of performCointegrationTest
CointegrationStatisticSquared(targetData, featureData) ==
    ResidualsStatisticSquared(CointegrationResiduals(targetData, featureData))

\* performCointegrationTest, the decision isCointegrated being c
PerformCointegrationTest(targetData, featureData, c) ==
    LET statistic == SqrtOf(CointegrationStatisticSquared(targetData, featureData))
    IN [statistic |-> statistic, pValue |-> ExpNegHalf(statistic), isCointegrated |-> c]

\* onClick of the cointegration button (src/unnamed/part_006:666-694)
RunCointegrationScreen ==
    /\ UNCHANGED <<liveTensors, runs>>
    /\ selectedStock # "" /\ Len(featureStocks) > 0
    /\ LET targetData == Closes(stocks[selectedStock])
       IN \E c \in [FoundFeatures -> BOOLEAN] :
             /\ \A s \in FoundFeatures :
                   c[s] \in CointegratedOutcomes(
                                CointegrationStatisticSquared(targetData, Closes(stocks[s])))
             /\ cointegrationResults' =
                    [s \in FoundFeatures |->
                        PerformCointegrationTest(targetData, Closes(stocks[s]), c[s])]
    /\ UNCHANGED <<stocks, selectedStock, featureStocks, params, tz, results, auxResults,
                   error, chiSquareResults, pc>>

ScreenTargets == {"A", "Z", ""}
ScreenFeatures == {<<>>, <<"B">>, <<"B", "Z">>}

\* the effect on [targetStock, featureStocks] (src/unnamed/part_006:227-231):
\* a new selection clears both screens
SelectStocks ==
    /\ UNCHANGED <<liveTensors, runs>>
    /\ \E target \in ScreenTargets, features \in ScreenFeatures :
          /\ <<target, features>> # <<selectedStock, featureStocks>>
          /\ selectedStock' = target
          /\ featureStocks' = features
    /\ chiSquareResults' = <<>>
    /\ cointegrationResults' = <<>>
    /\ UNCHANGED <<stocks, params, tz, results, auxResults, error, pc>>

InitScreens ==
    /\ liveTensors = {}
    /\ runs = <<>>
    /\ stocks \in {[s \in {"A", "B"} |-> IF s = "A" THEN DataOf(a) ELSE DataOf(b)] :
                      a \in SeqsUpTo(1..ScreenMaxClose, ScreenMaxLen),
                      b \in SeqsUpTo(1..ScreenMaxClose, ScreenMaxLen)}
    /\ selectedStock \in ScreenTargets
    /\ featureStocks \in ScreenFeatures
    /\ params = [lag |-> 1, forecastSteps |-> 1]
    /\ tz = UTC
    /\ results = <<>>
    /\ auxResults = <<>>
    /\ error = ""
    /\ chiSquareResults = <<>>
    /\ cointegrationResults = <<>>
    /\ pc = "idle"

SpecScreens ==
    InitScreens /\ [][RunChiSquareScreen \/ RunCointegrationScreen \/ SelectStocks]_vars

ScreenTarget == Closes(stocks["A"])
ScreenFeature == Closes(stocks["B"])

\* the category of a price change: 0 decrease, 1 flat, 2 increase
ChangeCategory(prices, t) ==
    LET change == Sub(prices[t + 1], prices[t])
    IN IF Lt(change, R(0)) THEN 0 ELSE IF Lt(R(0), change) THEN 2 ELSE 1

\* C9: for two price series of equal length n >= 2 the screen's table cell
\* [a][b] counts the t in 1..n-1 where the change of A has category a and the
\* change of B has category b, and the nine cells sum to n - 1
C9_ContingencyTableCountsPriceChanges ==
    ("B" \in DOMAIN chiSquareResults) =>
        LET table == ScreenContingencyTable(ScreenTarget, ScreenFeature)
            n == Len(ScreenTarget)
        IN /\ \A a \in 0..2, b \in 0..2 :
                 table[a + 1][b + 1] =
                     Cardinality({t \in 1..(n - 1) :
                                     /\ ChangeCategory(ScreenTarget, t) = a
                                     /\ ChangeCategory(ScreenFeature, t) = b})
           /\ SumInts(Arr([a \in 1..3 |-> SumInts(table[a])])) = n - 1

\* a number that is >= 0, and one that lies in [0, 1]
NonNegative(x) == IF Len(x) = 3 THEN TRUE ELSE Le(R(0), x)
InUnitInterval(x) == IF Len(x) = 3 THEN TRUE ELSE Le(R(0), x) /\ Le(x, R(1))

\* C10: the chi-square screen and the cointegration screen each return a
\* statistic >= 0 and a pValue with 0 <= pValue <= 1 (for the chi-square
\* pValue: its enclosure meets [0, 1])
C10_ScreenStatisticsInRange ==
    /\ \A s \in DOMAIN chiSquareResults :
          /\ Le(R(0), chiSquareResults[s].statistic)
          /\ Le(R(0), chiSquareResults[s].pValue.hi)
          /\ Le(chiSquareResults[s].pValue.lo, R(1))
    /\ \A s \in DOMAIN cointegrationResults :
          /\ NonNegative(cointegrationResults[s].statistic)
          /\ InUnitInterval(cointegrationResults[s].pValue)

----------------------------------------------------------------------------
(* Pearson correlation: the CorrelationAnalysis component                   *)
(* (src/components/Analysis/Correlation.tsx) and handleAnalyze of the       *)
(* correlation page (src/app/analysis/correlation/page.tsx).  A coefficient *)
(* that is not 0, 1 or -1 is written <<s * n, d, 2>> for s * sqrt(n/d)       *)

MinCommonDates == 30

\* array.find((d) => d.date === date): the first match, or undefined
FindByDate(data, date) ==
    IF \E i \in 1..Len(data) : data[i].date = date
    THEN data[CHOOSE i \in 1..Len(data) :
                  /\ data[i].date = date
                  /\ \A j \in 1..(i - 1) : data[j].date # date]
    ELSE Undefined

\* array.filter(keep): the kept elements in their order
RECURSIVE Filter(_, _)
Filter(s, keep) ==
    IF Len(s) = 0 THEN <<>>
    ELSE IF Len(s) = 1 THEN (IF s[1] \in keep THEN s ELSE <<>>)
    ELSE Filter(SubSeq(s, 1, Len(s) \div 2), keep)
         \o Filter(SubSeq(s, (Len(s) \div 2) + 1, Len(s)), keep)

DateSet(data) == {data[i].date : i \in 1..Len(data)}

\* s * Math.sqrt(q) for a fraction q >= 0 and a sign s
SignedSqrt(sign, q) ==
    IF q = R(0) \/ sign = 0 THEN R(0)
    ELSE IF q = R(1) THEN R(sign)
    ELSE <<sign * q[1], q[2], 2>>

\* sumXY / Math.sqrt(sumX2 * sumY2), which is also
\* numerator / (Math.sqrt(sumX2) * Math.sqrt(sumY2))
Pearson(sumXY, sumX2, sumY2) ==
    LET product == Mul(sumX2, sumY2)
    IN IF ~IsFinite(sumXY) \/ ~IsFinite(product) THEN NaN
       ELSE IF product = R(0) THEN Div(sumXY, R(0))
       ELSE SignedSqrt(SgnI(sumXY[1]), Div(Mul(sumXY, sumXY), product))

\* values - mean(values)
Centered(values) ==
    LET mean == Div(SumSeq(values), R(Len(values)))
    IN Arr([i \in 1..Len(values) |-> Sub(values[i], mean)])

SumOfProducts(xs, ys) == SumSeq(Arr([i \in 1..Len(xs) |-> Mul(xs[i], ys[i])]))

CorrelationOfCentered(diffX, diffY) ==
    Pearson(SumOfProducts(diffX, diffY), SumOfProducts(diffX, diffX),
            SumOfProducts(diffY, diffY))

\* calculateCorrelation of the page (page.tsx:129-142) on non-empty series; the
\* tensor computation of the component (Correlation.tsx:82-95) has the same value
CalculateCorrelation(x, y) == CorrelationOfCentered(Centered(x), Centered(y))

ClosesOn(data, dates) ==
    Arr([i \in 1..Len(dates) |-> R(FindByDate(data, dates[i]).close)])

CorrelationResult(symbol1, symbol2, dates, values1, values2) ==
    [stock1 |-> symbol1, stock2 |-> symbol2,
     correlation |-> CalculateCorrelation(values1, values2),
     dates |-> dates, values1 |-> values1, values2 |-> values2]

\* the pairs (i, j), i < j, of selectedStocks in the order of the two loops
SelectedPairs(selectedStocks) ==
    LET n == Len(selectedStocks)
        all == {<<i, j>> : i \in 1..n, j \in 1..n}
        pairs == {q \in all : q[1] < q[2]}
        rank(q) == Cardinality({r \in pairs : r[1] < q[1] \/ (r[1] = q[1] /\ r[2] < q[2])})
    IN [k \in 1..Cardinality(pairs) |->
           LET q == CHOOSE q \in pairs : rank(q) = k - 1
           IN <<selectedStocks[q[1]], selectedStocks[q[2]]>>]

\* commonDates of the component: the dates of stock2 that stock1 has
ComponentCommonDates(stock1Data, stock2Data) ==
    Filter(Dates(stock2Data), DateSet(stock1Data))

\* the error thrown for one pair of the component, "" when none
PairError(pair) ==
    IF pair[1] \notin DOMAIN stocks \/ pair[2] \notin DOMAIN stocks THEN "not found"
    ELSE IF Len(ComponentCommonDates(stocks[pair[1]], stocks[pair[2]])) < MinCommonDates
    THEN "not enough common data"
    ELSE ""

PairResult(pair) ==
    LET commonDates == ComponentCommonDates(stocks[pair[1]], stocks[pair[2]])
    IN CorrelationResult(pair[1], pair[2], commonDates,
                         ClosesOn(stocks[pair[1]], commonDates),
                         ClosesOn(stocks[pair[2]], commonDates))

\* the effect of CorrelationAnalysis (Correlation.tsx:29-127) for
\* selectedStocks = [targetStock, ...featureStocks] (page.tsx:244)
RunCorrelationAnalysis ==
    /\ UNCHANGED <<liveTensors, runs>>
    /\ pc = "idle"
    /\ pc' = "component"
    /\ LET pairs == SelectedPairs(AllAnalysisStocks)
       IN IF Len(AllAnalysisStocks) < 2
          THEN error' = "select two" /\ UNCHANGED results
          ELSE IF \E k \in 1..Len(pairs) : PairError(pairs[k]) # ""
          THEN /\ error' = PairError(pairs[CHOOSE k \in 1..Len(pairs) :
                                               /\ PairError(pairs[k]) # ""
                                               /\ \A m \in 1..(k - 1) : PairError(pairs[m]) = ""])
               /\ UNCHANGED results
          ELSE /\ error' = ""
               /\ results' = Arr([k \in 1..Len(pairs) |-> PairResult(pairs[k])])
    /\ UNCHANGED <<stocks, selectedStock, featureStocks, params, tz, auxResults,
                   chiSquareResults, cointegrationResults>>

\* the features handleAnalyze finds in stocks, in their order
FoundFeatureSeq == Filter(featureStocks, DOMAIN stocks)

\* commonDates of the page: the dates of the base stock that the other has
PageCommonDates(baseData, compareData) == Filter(Dates(baseData), DateSet(compareData))

\* x.reduce((a, b) => a + b) without an initial value throws on an empty array
PageThrows ==
    /\ selectedStock \in DOMAIN stocks
    /\ \E k \in 1..Len(FoundFeatureSeq) :
          Len(PageCommonDates(stocks[selectedStock], stocks[FoundFeatureSeq[k]])) = 0

PageResult(featureSymbol) ==
    LET commonDates == PageCommonDates(stocks[selectedStock], stocks[featureSymbol])
    IN CorrelationResult(selectedStock, featureSymbol, commonDates,
                         ClosesOn(stocks[selectedStock], commonDates),
                         ClosesOn(stocks[featureSymbol], commonDates))

\* handleAnalyze of the correlation page (page.tsx:86-126): the published
\* correlationResults are auxResults
HandleAnalyze ==
    /\ UNCHANGED <<liveTensors, runs>>
    /\ pc = "idle"
    /\ pc' = "page"
    /\ IF PageThrows
       THEN error' = "TypeError" /\ UNCHANGED auxResults
       ELSE /\ error' = ""
            /\ auxResults' =
                   IF selectedStock \in DOMAIN stocks
                   THEN Arr([k \in 1..Len(FoundFeatureSeq) |-> PageResult(FoundFeatureSeq[k])])
                   ELSE <<>>
    /\ UNCHANGED <<stocks, selectedStock, featureStocks, params, tz, results,
                   chiSquareResults, cointegrationResults>>

\* the closes of a pattern: constant, rising, or alternating
PatternClose(pattern, i) ==
    IF pattern = "flat" THEN 1 ELSE IF pattern = "ramp" THEN i ELSE 1 + (i % 2)

\* len consecutive calendar days from day first
PatternData(first, len, pattern) ==
    [i \in 1..len |-> [date |-> DateStr(first + i - 1), close |-> PatternClose(pattern, i)]]

CorrelationLengths == 0..CorrMaxShort \cup MinCommonDates..(MinCommonDates + CorrMaxExtra)

InitCorrelation ==
    /\ liveTensors = {}
    /\ runs = <<>>
    /\ stocks \in {[s \in {"A", "B"} |-> IF s = "A" THEN a ELSE b] :
                      a \in {PatternData(0, len, pattern) :
                                len \in CorrelationLengths,
                                pattern \in {"flat", "ramp", "zigzag"}},
                      b \in {PatternData(first, len, pattern) :
                                first \in 0..CorrMaxOffset, len \in CorrelationLengths,
                                pattern \in {"flat", "ramp", "zigzag"}}}
    /\ selectedStock \in {"A", "Z", ""}
    /\ featureStocks \in {<<>>, <<"B">>, <<"Z">>, <<"B", "Z">>}
    /\ params = [lag |-> 1, forecastSteps |-> 1]
    /\ tz = UTC
    /\ results = <<>>
    /\ auxResults = <<>>
    /\ chiSquareResults = <<>>
    /\ cointegrationResults = <<>>
    /\ error = ""
    /\ pc = "idle"

SpecCorrelation == InitCorrelation /\ [][RunCorrelationAnalysis \/ HandleAnalyze]_vars

\* the correlation results published by either path
PublishedCorrelations ==
    {results[k] : k \in 1..Len(results)} \cup {auxResults[k] : k \in 1..Len(auxResults)}

\* C11: no correlation result is produced for a pair of series with fewer than
\* 30 common dates
C11_NoCorrelationBelowThirtyCommonDates ==
    pc \in {"component", "page"} =>
        \A r \in PublishedCorrelations : Len(r.dates) >= MinCommonDates

\* C12: two constant aligned series give the coefficient 0, and every
\* coefficient returned is a defined number
C12_CorrelationDefined ==
    pc \in {"component", "page"} =>
        \A r \in PublishedCorrelations :
            /\ r.correlation # NaN
            /\ (/\ \A i \in 1..Len(r.values1) : r.values1[i] = r.values1[1]
                /\ \A i \in 1..Len(r.values2) : r.values2[i] = r.values2[1])
               => r.correlation = R(0)


----------------------------------------------------------------------------
(* Fully formed timelines (src/unnamed/part_006:106-112, 168-200, 534-562) *)

\* the timelines published by a VAR call that did not end in an error
VarTimelines == {results, auxResults}

\* C13: a VAR call that does not end in an error returns timelines in which
\* every row has a defined date and every forecast row a defined prediction
C13_TimelinesFullyFormed ==
    VarRan =>
        \A timeline \in VarTimelines :
            /\ \A i \in 1..Len(timeline) : timeline[i].date # UndefinedDate
            /\ \A i \in 1..Len(VarForecastRows(timeline)) :
                  VarForecastRows(timeline)[i].prediction # Undefined


----------------------------------------------------------------------------
(* Screens and failing features (src/unnamed/part_006:594-622, 666-694) *)

SelectedFeatures == {featureStocks[i] : i \in 1..Len(featureStocks)}

\* C14: a screen never publishes results for some of the selected features
\* only: when a feature symbol is absent or its test raises an error, the
\* invocation publishes no results
C14_ScreenNeverPublishesPartialResults ==
    /\ DOMAIN chiSquareResults # {} => DOMAIN chiSquareResults = SelectedFeatures
    /\ DOMAIN cointegrationResults # {} => DOMAIN cointegrationResults = SelectedFeatures


----------------------------------------------------------------------------
(* Custom indicator input: parseCSVToCustomIndicator (src/lib/utils.ts:211-234)
   and its two callers (src/unnamed/part_005:27-95).  A string is the
   sequence of its characters. *)

Whitespace == {" ", "\n"}
DigitChars == <<"0", "1", "2", "3", "4", "5", "6", "7", "8", "9">>
InfinityChars == <<"I", "n", "f", "i", "n", "i", "t", "y">>

RECURSIVE TrimStart(_)
TrimStart(s) ==
    IF Len(s) > 0 /\ s[1] \in Whitespace THEN TrimStart(Tail(s)) ELSE s

RECURSIVE TrimEnd(_)
TrimEnd(s) ==
    IF Len(s) > 0 /\ s[Len(s)] \in Whitespace THEN TrimEnd(SubSeq(s, 1, Len(s) - 1)) ELSE s

\* String.prototype.trim
Trim(s) == TrimEnd(TrimStart(s))

StartsWith(s, pattern) ==
    Len(s) >= Len(pattern) /\ SubSeq(s, 1, Len(pattern)) = pattern

\* String.prototype.includes
Includes(s, pattern) ==
    \E i \in 0..(Len(s) - Len(pattern)) : SubSeq(s, i + 1, i + Len(pattern)) = pattern

\* String.prototype.split on a one-character separator
RECURSIVE Split(_, _)
Split(s, separator) ==
    IF \A i \in 1..Len(s) : s[i] # separator
    THEN <<s>>
    ELSE LET k == CHOOSE i \in 1..Len(s) :
                      s[i] = separator /\ \A j \in 1..(i - 1) : s[j] # separator
         IN <<SubSeq(s, 1, k - 1)>> \o Split(SubSeq(s, k + 1, Len(s)), separator)

IsDigit(c) == \E d \in 1..10 : DigitChars[d] = c
DigitValue(c) == (CHOOSE d \in 1..10 : DigitChars[d] = c) - 1

\* the length of the longest prefix of digits
RECURSIVE DigitsPrefix(_)
DigitsPrefix(s) ==
    IF Len(s) > 0 /\ IsDigit(s[1]) THEN 1 + DigitsPrefix(Tail(s)) ELSE 0

\* the natural number written by a string of digits
RECURSIVE DigitsValue(_)
DigitsValue(s) ==
    IF Len(s) = 0 THEN 0
    ELSE 10 * DigitsValue(SubSeq(s, 1, Len(s) - 1)) + DigitValue(s[Len(s)])

\* the unsigned decimal literal at the start of s (digits, optionally a point
\* and more digits), NaN when there is no digit
UnsignedDecimal(s) ==
    LET whole == DigitsPrefix(s)
        rest == SubSeq(s, whole + 1, Len(s))
        fraction == IF Len(rest) > 0 /\ rest[1] = "." THEN DigitsPrefix(Tail(rest)) ELSE 0
    IN IF whole + fraction = 0 THEN NaN
       ELSE Norm(DigitsValue(SubSeq(s, 1, whole)) * Pow10(fraction)
                     + DigitsValue(SubSeq(rest, 2, fraction + 1)),
                 Pow10(fraction))

\* parseFloat: leading white space and a sign are accepted, the longest
\* numeric prefix is read and what follows it is ignored
ParseFloat(s) ==
    LET t == TrimStart(s)
        signed == Len(t) > 0 /\ t[1] \in {"+", "-"}
        body == IF signed THEN Tail(t) ELSE t
        magnitude == IF StartsWith(body, InfinityChars) THEN PosInf ELSE UnsignedDecimal(body)
    IN IF signed /\ t[1] = "-" THEN Neg(magnitude) ELSE magnitude

\* a parser that never takes the first line for a header
StartLine_NeverSkips(lines) == 0

\* lines[0].includes("date") || lines[0].includes("Date")
StartLine(lines) ==
    IF Includes(lines[1], <<"d", "a", "t", "e">>) \/ Includes(lines[1], <<"D", "a", "t", "e">>)
    THEN 1 ELSE 0

\* const [date, valueStr] = lines[i].split(",")
DateField(line) == Split(line, ",")[1]
ValueField(line) == Split(line, ",")[2]
\* valueStr is undefined when the line has no comma
ValueFieldUndefined(line) == Len(Split(line, ",")) < 2

\* the row pushed for a line
IndicatorRow(line) == [date |-> Trim(DateField(line)), value |-> ParseFloat(Trim(ValueField(line)))]

\* !isNaN(value) && date
RowKept(line) == ~IsNaN(ParseFloat(Trim(ValueField(line)))) /\ DateField(line) # <<>>

\* the loop over the lines; valueStr.trim() throws a TypeError when the line
\* has no comma
RECURSIVE ParseLoop(_, _, _)
ParseLoop(lines, i, parsed) ==
    IF i >= Len(lines) THEN [thrown |-> FALSE, rows |-> parsed]
    ELSE IF ValueFieldUndefined(lines[i + 1]) THEN [thrown |-> TRUE, rows |-> parsed]
    ELSE ParseLoop(lines, i + 1,
                   IF RowKept(lines[i + 1]) THEN Append(parsed, IndicatorRow(lines[i + 1]))
                   ELSE parsed)

CsvLines(csvContent) == Split(Trim(csvContent), "\n")

ParseCSVToCustomIndicator(csvContent) ==
    ParseLoop(CsvLines(csvContent), StartLine(CsvLines(csvContent)), <<>>)

\* the try block shared by both callers: the parsed rows are published unless
\* the parser throws or returns no row
PublishParsed(csvContent) ==
    LET outcome == ParseCSVToCustomIndicator(csvContent)
    IN IF outcome.thrown THEN error' = "TypeError" /\ UNCHANGED results
       ELSE IF Len(outcome.rows) = 0 THEN error' = "No valid data found" /\ UNCHANGED results
       ELSE results' = outcome.rows /\ error' = ""

\* handleManualInput (src/unnamed/part_005:65-95)
HandleManualInput ==
    /\ UNCHANGED <<liveTensors, runs>>
    /\ pc' = "manual"
    /\ IF params.csvContent # <<>>
       THEN PublishParsed(params.csvContent)
       ELSE error' = "Please enter data in CSV format" /\ UNCHANGED results
    /\ UNCHANGED <<stocks, selectedStock, featureStocks, params, tz, auxResults,
                   chiSquareResults, cointegrationResults>>

\* reader.onload of handleFileUpload (src/unnamed/part_005:33-55)
HandleFileLoaded ==
    /\ UNCHANGED <<liveTensors, runs>>
    /\ pc' = "file"
    /\ IF params.csvContent # <<>>
       THEN PublishParsed(params.csvContent)
       ELSE error' = "Failed to read file" /\ UNCHANGED results
    /\ UNCHANGED <<stocks, selectedStock, featureStocks, params, tz, auxResults,
                   chiSquareResults, cointegrationResults>>

\* the text joined from its lines
RECURSIVE JoinLines(_)
JoinLines(lines) ==
    IF Len(lines) = 0 THEN <<>>
    ELSE IF Len(lines) = 1 THEN lines[1]
    ELSE lines[1] \o <<"\n">> \o JoinLines(Tail(lines))

CsvDateFields ==
    {<<"d", "a", "t", "e">>, <<"D", "a", "t", "e">>, <<"d", "a", "y">>, <<"2">>, <<" ">>, <<>>}
CsvValueFields ==
    {<<"1">>, <<" ", "2", " ">>, <<"1", ".", "5">>, <<"-", "2">>, <<"1", "x">>, <<"x">>, <<>>,
     InfinityChars}
\* a line: a date field alone, or a date field, a comma and a value field, or
\* three fields
CsvInputLines ==
    CsvDateFields
    \cup {d \o <<",">> \o v : d \in CsvDateFields, v \in CsvValueFields}
    \cup {<<"2", ",", "1", ",", "9">>}

InitCsv ==
    /\ liveTensors = {}
    /\ runs = <<>>
    /\ params \in {[csvContent |-> JoinLines(lines)] : lines \in SeqsUpTo(CsvInputLines, CsvMaxLines)}
    /\ stocks = <<>>
    /\ selectedStock = ""
    /\ featureStocks = <<>>
    /\ tz = UTC
    /\ results = <<>>
    /\ auxResults = <<>>
    /\ chiSquareResults = <<>>
    /\ cointegrationResults = <<>>
    /\ error = ""
    /\ pc = "idle"

SpecCsv == InitCsv /\ [][HandleManualInput \/ HandleFileLoaded]_vars

\* the call parsed the text and published its rows
CsvParsed == pc \in {"manual", "file"} /\ error = ""
\* the input lines that remain after the header line, if there is one
CsvRemainingLines ==
    LET lines == CsvLines(params.csvContent)
    IN IF Includes(lines[1], <<"d", "a", "t", "e">>) \/ Includes(lines[1], <<"D", "a", "t", "e">>)
       THEN Tail(lines) ELSE lines
\* a line that holds a row: a non-empty date field and a value that parses
CsvValidLine(line) ==
    /\ Len(Split(line, ",")) >= 2
    /\ Split(line, ",")[1] # <<>>
    /\ ParseFloat(Trim(Split(line, ",")[2])) # NaN
CsvRowOf(line) ==
    [date |-> Trim(Split(line, ",")[1]), value |-> ParseFloat(Trim(Split(line, ",")[2]))]

\* C15: the first line is skipped exactly when it contains date or Date, and
\* the published rows are the rows of a subsequence of the remaining lines, in
\* their order
C15_HeaderSkippedAndOrderKept ==
    CsvParsed =>
        LET lines == CsvRemainingLines
        IN /\ \E f \in [1..Len(results) -> 1..Len(lines)] :
                 /\ \A i, j \in 1..Len(results) : i < j => f[i] < f[j]
                 /\ \A i \in 1..Len(results) : results[i] = CsvRowOf(lines[f[i]])
           /\ (lines = CsvLines(params.csvContent) /\ CsvValidLine(lines[1]))
                 => results[1] = CsvRowOf(lines[1])

\* a text with a header line and one row
C15_Witness ==
    /\ CsvParsed
    /\ Len(CsvRemainingLines) < Len(CsvLines(params.csvContent))
    /\ Len(results) = 1
    /\ results[1].value = R(1)

\* C16: a row whose value is missing or not a finite number is discarded, every
\* other row with a non-empty date is kept, and a bad row never aborts the parse
C16_BadRowsDiscardedWithoutAbort ==
    pc \in {"manual", "file"} =>
        /\ error # "TypeError"
        /\ error = "" =>
              /\ \A i \in 1..Len(results) : IsFinite(results[i].value)
              /\ Len(results) = Cardinality({i \in 1..Len(CsvRemainingLines) :
                                                 CsvValidLine(CsvRemainingLines[i])})


----------------------------------------------------------------------------
(* Series utilities of src/lib/utils.ts: prepareARIMAData (179-192),
   createLaggedDataset (195-208), normalizeData (237-247), each applied to a
   series as trainARIMAModel and handleStartAnalysis apply them *)

\* a lagged dataset whose rows run one element late, so that each row ends
\* with its own target
CreateLaggedDataset_RowsIncludeTarget(data, lagSteps) ==
    LET rows == Upto(Len(data) - lagSteps)
    IN [thrown |-> Len(data) <= lagSteps,
        X |-> Arr([r \in rows |-> Slice(data, r, r + lagSteps)]),
        y |-> Arr([r \in rows |-> data[r + lagSteps]])]

\* createLaggedDataset: for i = lagSteps .. length - 1 the row
\* data.slice(i - lagSteps, i) and the target data[i]; tf.tensor2d rejects an
\* empty X given without a shape
CreateLaggedDataset(data, lagSteps) ==
    LET rows == Upto(Len(data) - lagSteps)
    IN [thrown |-> Len(data) <= lagSteps,
        X |-> Arr([r \in rows |-> Slice(data, r - 1, r - 1 + lagSteps)]),
        y |-> Arr([r \in rows |-> data[r + lagSteps]])]

SeriesData == DataOf(params.closes)
SeriesValues == Closes(SeriesData)

RunCreateLaggedDataset ==
    /\ UNCHANGED <<liveTensors, runs>>
    /\ pc = "idle"
    /\ pc' = "lagged"
    /\ LET dataset == CreateLaggedDataset(SeriesValues, params.lagSteps)
       IN IF dataset.thrown
          THEN error' = "Error" /\ UNCHANGED results
          ELSE error' = "" /\ results' = [X |-> dataset.X, y |-> dataset.y]
    /\ UNCHANGED <<stocks, selectedStock, featureStocks, params, tz, auxResults,
                   chiSquareResults, cointegrationResults>>

RunNormalizeData ==
    /\ UNCHANGED <<liveTensors, runs>>
    /\ pc = "idle"
    /\ pc' = "normalized"
    /\ error' = ""
    /\ results' = NormalizeData(SeriesValues)
    /\ UNCHANGED <<stocks, selectedStock, featureStocks, params, tz, auxResults,
                   chiSquareResults, cointegrationResults>>

RunPrepareARIMAData ==
    /\ UNCHANGED <<liveTensors, runs>>
    /\ pc = "idle"
    /\ pc' = "differenced"
    /\ error' = ""
    /\ results' = PrepareARIMAData(SeriesData, params.d)
    /\ UNCHANGED <<stocks, selectedStock, featureStocks, params, tz, auxResults,
                   chiSquareResults, cointegrationResults>>

InitSeries ==
    /\ liveTensors = {}
    /\ runs = <<>>
    /\ params \in {[closes |-> c, lagSteps |-> k, d |-> d] :
                      c \in SeqsUpTo(1..SeriesMaxClose, SeriesMaxLen) \ {<<>>},
                      k \in 0..SeriesMaxLag, d \in 0..SeriesMaxD}
    /\ stocks = <<>>
    /\ selectedStock = ""
    /\ featureStocks = <<>>
    /\ tz = UTC
    /\ results = <<>>
    /\ auxResults = <<>>
    /\ chiSquareResults = <<>>
    /\ cointegrationResults = <<>>
    /\ error = ""
    /\ pc = "idle"

SpecSeries ==
    InitSeries /\ [][RunCreateLaggedDataset \/ RunNormalizeData \/ RunPrepareARIMAData]_vars

\* C17: on a series of length L and a lag k with 1 <= k < L the lagged dataset
\* has L - k rows of width k and L - k targets, row i holding
\* series[i .. i + k - 1] and target i holding series[i + k] (i from 0)
C17_LaggedDatasetShape ==
    (pc = "lagged" /\ params.lagSteps >= 1 /\ params.lagSteps < Len(params.closes)) =>
        LET L == Len(params.closes)
            k == params.lagSteps
        IN /\ error = ""
           /\ Len(results.X) = L - k
           /\ Len(results.y) = L - k
           /\ \A i \in 0..(L - k - 1) :
                 /\ Len(results.X[i + 1]) = k
                 /\ \A j \in 0..(k - 1) : results.X[i + 1][j + 1] = At(SeriesValues, i + j)
                 /\ results.y[i + 1] = At(SeriesValues, i + k)

\* a series of four points, not all equal, with lag 2
C17_Witness ==
    /\ pc = "lagged"
    /\ params.lagSteps = 2
    /\ Len(params.closes) = 4
    /\ params.closes[2] # params.closes[3]
    /\ Len(results.X) = 2

\* C18: every element of a normalized series is a defined number, also when
\* the input series is constant
C18_NormalizedElementsDefined ==
    pc = "normalized" =>
        \A i \in 1..Len(results.data) : IsFinite(results.data[i])

\* C19: differencing of order d returns n - d values when d < n and fails with
\* an error when d >= n
C19_DifferenceLengthOrError ==
    pc = "differenced" =>
        IF params.d < Len(params.closes)
        THEN error = "" /\ Len(results) = Len(params.closes) - params.d
        ELSE error # ""


----------------------------------------------------------------------------
(* Tensor disposal (src/unnamed/part_007:333-407, src/lib/utils.ts:237-262,
   src/components/Analysis/GARCH.tsx:429-579) *)

\* C20: when an ARIMA or GARCH call has ended, by a result or by an error,
\* every tensor and model it allocated has been disposed
C20_AllTensorsDisposed ==
    pc \in {"arima", "garch"} => liveTensors = {}


----------------------------------------------------------------------------
(* Element reads of simpleVarForecast (src/unnamed/part_006:354-391) *)

\* the reads <<series, index>> (both from 0) of the coefficient loops: for
\* every l, j and t = lag .. stockLength - 1 the four elements of the product
CoefficientReads(data, targetIndex, lag) ==
    LET stockLength == Len(data[1])
    IN UNION {{<<targetIndex, t>>, <<targetIndex, t - 1>>, <<j, t - l - 1>>, <<j, t - l - 2>>} :
                 <<l, j, t>> \in (0..(lag - 1)) \X (0..(Len(data) - 1)) \X (lag..(stockLength - 1))}

\* the reads that seed latestValues: data[s][stockLength - 1 - i] for i = 0 .. lag
SeedReads(data, lag) ==
    LET stockLength == Len(data[1])
    IN {<<s, stockLength - 1 - i>> : s \in 0..(Len(data) - 1), i \in 0..lag}

InRange(data, read) == read[2] >= 0 /\ read[2] < Len(data[read[1] + 1])

\* the series handed to the forecaster by the call
VarProcessedData == ProcessedData(VarStockPrices, VarStockPrices)

\* C21: a VAR call that does not end in an error has read, in coefficient
\* estimation and in window seeding, only elements inside their series
C21_VarReadsInRange ==
    VarRan =>
        \A read \in CoefficientReads(VarProcessedData, 0, VarLag)
                    \cup SeedReads(VarProcessedData, VarLag) :
            InRange(VarProcessedData, read)


----------------------------------------------------------------------------
(* The recursive forecast loops, step by step: trainARIMAModel
   (src/unnamed/part_007:378-399), trainGARCHModel of the first
   (src/components/Analysis/GARCH.tsx:122-214) and of the second
   (src/components/Analysis/GARCH.tsx:429-579) GARCH component.
   params.series is the series the networks are trained on, results the
   predictions pushed so far, auxResults the rolling window. *)

\* array.slice(-n) for n >= 0: the last n elements, and the whole array for 0
SliceLast(s, n) ==
    IF n = 0 \/ n >= Len(s) THEN s ELSE SubSeq(s, Len(s) - n + 1, Len(s))

Squares(s) == Arr([i \in 1..Len(s) |-> Mul(s[i], s[i])])

\* the feature row built for target i (from 0): returns[i - 1] .. returns[i - p],
\* then returnSquared[i - 1] .. returnSquared[i - q]
FeatureRow(returns, i, p, q) ==
    Arr([j \in 1..p |-> At(returns, i - j)])
    \o Arr([j \in 1..q |-> At(Squares(returns), i - j)])

\* inputFeatures of the second component:
\* [...lastReturns.slice(-p), ...lastReturnSquared.slice(-q)]
InputFeatures(window, p, q) ==
    SliceLast(window.lastReturns, p) \o SliceLast(window.lastReturnSquared, q)

\* a window shifted by one and extended with the new value
ShiftPush(window, value) == Append(Tail(window), value)

StartArimaForecast ==
    /\ pc = "idle"
    /\ IF Len(params.series) <= Lag(params.p, params.q)
       THEN pc' = "failed" /\ error' = "failed" /\ UNCHANGED auxResults
       ELSE /\ pc' = "arima"
            /\ auxResults' = SliceLast(params.series, Lag(params.p, params.q))
            /\ UNCHANGED error
    /\ UNCHANGED <<stocks, selectedStock, featureStocks, params, tz, results,
                   chiSquareResults, cointegrationResults, liveTensors, runs>>

ArimaForecastStep ==
    /\ pc = "arima"
    /\ Len(results) < params.forecastSteps
    /\ \E value \in NetworkOutputs :
          /\ results' = Append(results, value)
          /\ auxResults' = ShiftPush(auxResults, value)
    /\ UNCHANGED <<stocks, selectedStock, featureStocks, params, tz, error,
                   chiSquareResults, cointegrationResults, pc, liveTensors, runs>>

\* first component: currentFeatures starts as the last training row
StartGarchForecastFirst ==
    /\ pc = "idle"
    /\ IF Len(params.series) <= Lag(params.p, params.q)
       THEN pc' = "failed" /\ error' = "failed" /\ UNCHANGED auxResults
       ELSE /\ pc' = "garch1"
            /\ auxResults' = FeatureRow(params.series, Len(params.series) - 1,
                                        params.p, params.q)
            /\ UNCHANGED error
    /\ UNCHANGED <<stocks, selectedStock, featureStocks, params, tz, results,
                   chiSquareResults, cointegrationResults, liveTensors, runs>>

GarchForecastStepFirst ==
    /\ pc = "garch1"
    /\ Len(results) < params.forecastSteps
    /\ \E prediction \in NetworkOutputs :
          /\ results' = Append(results, prediction)
          /\ auxResults' = <<prediction>> \o Slice(auxResults, 0, params.p - 1)
                           \o <<Mul(prediction, prediction)>>
                           \o Slice(auxResults, params.p, params.p + params.q - 1)
    /\ UNCHANGED <<stocks, selectedStock, featureStocks, params, tz, error,
                   chiSquareResults, cointegrationResults, pc, liveTensors, runs>>

\* second component: one window of returns and one of squared returns
StartGarchForecastSecond ==
    /\ pc = "idle"
    /\ IF Len(params.series) <= Lag(params.p, params.q)
       THEN pc' = "failed" /\ error' = "failed" /\ UNCHANGED auxResults
       ELSE /\ pc' = "garch2"
            /\ auxResults' = [lastReturns |-> SliceLast(params.series, params.p),
                              lastReturnSquared |-> SliceLast(Squares(params.series), params.q)]
            /\ UNCHANGED error
    /\ UNCHANGED <<stocks, selectedStock, featureStocks, params, tz, results,
                   chiSquareResults, cointegrationResults, liveTensors, runs>>

GarchForecastStepSecond ==
    /\ pc = "garch2"
    /\ Len(results) < params.forecastSteps
    /\ \E returnValue \in NetworkOutputs :
          /\ results' = Append(results, returnValue)
          /\ auxResults' =
                [lastReturns |-> ShiftPush(auxResults.lastReturns, returnValue),
                 lastReturnSquared |-> ShiftPush(auxResults.lastReturnSquared,
                                                 Mul(returnValue, returnValue))]
    /\ UNCHANGED <<stocks, selectedStock, featureStocks, params, tz, error,
                   chiSquareResults, cointegrationResults, pc, liveTensors, runs>>

\* the loop has run forecastSteps times and the predictions are returned
ReturnForecast ==
    /\ pc \in {"arima", "garch1", "garch2"}
    /\ Len(results) >= params.forecastSteps
    /\ pc' = "returned"
    /\ UNCHANGED <<stocks, selectedStock, featureStocks, params, tz, results, auxResults,
                   error, chiSquareResults, cointegrationResults, liveTensors, runs>>

InitRolling ==
    /\ params \in {[series |-> Arr([i \in 1..Len(c) |-> R(c[i])]), p |-> p, q |-> q,
                    forecastSteps |-> n] :
                      c \in SeqsUpTo(1..RollMaxValue, RollMaxLen),
                      p \in 1..RollMaxOrder, q \in 1..RollMaxOrder, n \in 0..RollMaxSteps}
    /\ stocks = <<>>
    /\ selectedStock = ""
    /\ featureStocks = <<>>
    /\ tz = UTC
    /\ results = <<>>
    /\ auxResults = <<>>
    /\ chiSquareResults = <<>>
    /\ cointegrationResults = <<>>
    /\ error = ""
    /\ pc = "idle"
    /\ liveTensors = {}
    /\ runs = <<>>

SpecRolling ==
    InitRolling /\ [][StartArimaForecast \/ ArimaForecastStep
                      \/ StartGarchForecastFirst \/ GarchForecastStepFirst
                      \/ StartGarchForecastSecond \/ GarchForecastStepSecond
                      \/ ReturnForecast]_vars

\* the observations followed by the predictions made so far
RollExtended == params.series \o results
Reverse(s) == Arr([i \in 1..Len(s) |-> s[Len(s) + 1 - i]])

\* C22: before every forecast step the rolling window holds the last elements
\* of the observations followed by the predictions made so far (lag of them in
\* the ARIMA loop, p returns and q squared returns in the GARCH loops), and
\* exactly forecastSteps predictions are returned
C22_RollingWindowFollowsSeries ==
    /\ pc = "arima" => auxResults = SliceLast(RollExtended, Lag(params.p, params.q))
    /\ pc = "garch1" =>
          /\ Len(auxResults) = params.p + params.q
          /\ Reverse(SubSeq(auxResults, 1, params.p)) = SliceLast(RollExtended, params.p)
    /\ pc = "garch2" =>
          /\ auxResults.lastReturns = SliceLast(RollExtended, params.p)
          /\ auxResults.lastReturnSquared = SliceLast(Squares(RollExtended), params.q)
    /\ pc = "returned" => Len(results) = params.forecastSteps

\* C27: at every forecast step of the second GARCH component the feature
\* vector given to the regressors is laid out as the training row of the next
\* target: returns at lag 1 .. p, then squared returns at lag 1 .. q
C27_GarchInputMatchesTrainingLayout ==
    (pc = "garch2" /\ Len(results) < params.forecastSteps) =>
        InputFeatures(auxResults, params.p, params.q)
            = FeatureRow(RollExtended, Len(RollExtended), params.p, params.q)


----------------------------------------------------------------------------
(* Un-differencing of the ARIMA forecasts (src/unnamed/part_007:294-308);
   params.predictions are the denormalized predictions *)

\* actualPredictions
ActualPredictions(data, d, denormalizedPredictions) ==
    IF d > 0
    THEN Undifference(R(data[Len(data)].close), denormalizedPredictions)
    ELSE denormalizedPredictions

\* the part of handleStartAnalysis after training: reached only when the
\* differenced series is longer than the lag, so the series has more than d
\* points
UndifferencePredictions ==
    /\ UNCHANGED <<liveTensors, runs>>
    /\ pc = "idle"
    /\ IF Len(params.closes) <= params.d
       THEN pc' = "failed" /\ error' = "failed" /\ UNCHANGED results
       ELSE /\ pc' = "undifferenced"
            /\ results' = ActualPredictions(DataOf(params.closes), params.d, params.predictions)
            /\ UNCHANGED error
    /\ UNCHANGED <<stocks, selectedStock, featureStocks, params, tz, auxResults,
                   chiSquareResults, cointegrationResults>>

InitUndifference ==
    /\ params \in {[closes |-> c, d |-> d, predictions |-> Arr([i \in 1..Len(x) |-> R(x[i])])] :
                      c \in SeqsUpTo(1..UndiffMaxClose, UndiffMaxLen) \ {<<>>},
                      d \in 0..UndiffMaxD,
                      x \in SeqsUpTo(0..1, UndiffMaxSteps)}
    /\ stocks = <<>>
    /\ selectedStock = ""
    /\ featureStocks = <<>>
    /\ tz = UTC
    /\ results = <<>>
    /\ auxResults = <<>>
    /\ chiSquareResults = <<>>
    /\ cointegrationResults = <<>>
    /\ error = ""
    /\ pc = "idle"
    /\ liveTensors = {}
    /\ runs = <<>>

SpecUndifference == InitUndifference /\ [][UndifferencePredictions]_vars

\* the original closes followed by the surfaced forecasts, differenced d times
DifferencedExtension ==
    PrepareARIMADataLoop(Closes(DataOf(params.closes)) \o results, params.d)

----------------------------------------------------------------------------
(* The sliding window of simpleVarForecast (src/unnamed/part_006:383-434) *)

\* latestValues before the first forecast step of the call
VarSeedWindow == InitialLatestValues(VarProcessedData, VarLag)

\* the (i + 1)-th most recent element of a series (i from 0)
MostRecent(series, i) == At(series, Len(series) - 1 - i)

\* C24: before the first forecast step the window holds lag + 1 joint vectors,
\* and vector i holds, for every series that has that many points, the series'
\* (i + 1)-th most recent processed observation
C24_VarWindowHoldsMostRecent ==
    VarRan =>
        /\ Len(VarSeedWindow) = VarLag + 1
        /\ \A i \in 0..VarLag, s \in 1..Len(VarProcessedData) :
              i < Len(VarProcessedData[s]) =>
                  VarSeedWindow[i + 1][s] = MostRecent(VarProcessedData[s], i)


----------------------------------------------------------------------------
(* Historical and forecast rows of the VAR timeline
   (src/unnamed/part_006:461-468, 534-558, 168-199) *)

\* the close of the target was observed to be value on date
ObservedOn(date, value) ==
    \E j \in 1..Len(stocks["A"]) :
        stocks["A"][j].date = date /\ R(stocks["A"][j].close) = value

\* C25: every historical row of the VAR timeline pairs a close with the date
\* on which the target had that close
C25_VarHistoricalRowsPairCloseWithItsDate ==
    VarRan =>
        \A i \in 1..Len(VarTargetPrices) : ObservedOn(results[i].date, results[i].value)

\* C26: for steps >= 1 (and a target of at least 2 points, so that future
\* dates exist) the VAR timeline has steps + 1 forecast rows, the anchor and
\* one row for each of the forecaster's predictions
C26_VarEveryPredictionHasARow ==
    (VarRan /\ params.forecastSteps >= 1 /\ Len(VarTargetPrices) >= 2) =>
        /\ Len(VarForecastRows(results)) = params.forecastSteps + 1
        /\ \A k \in 1..params.forecastSteps :
              \E i \in 1..Len(VarForecastRows(results)) :
                  VarForecastRows(results)[i].prediction = VarStepPrediction(k)


----------------------------------------------------------------------------
(* Dates of the GARCH forecast rows
   (src/components/Analysis/GARCH.tsx:381-410, src/lib/utils.ts:11-49) *)

GarchPriceForecastRows == ForecastRows(results, Len(HistoryDates))
GarchVolatilityForecastRows == ForecastRows(auxResults, Len(HistoryDates) - 1)

\* C28: in the GARCH result the k-th volatility forecast row carries the date
\* of the k-th price forecast row
C28_GarchVolatilityDatesMatchPriceDates ==
    (ForecastRan /\ pc = "garch") =>
        /\ Len(GarchVolatilityForecastRows) = Len(GarchPriceForecastRows)
        /\ \A k \in 1..Len(GarchPriceForecastRows) :
              GarchVolatilityForecastRows[k].date = GarchPriceForecastRows[k].date


----------------------------------------------------------------------------
(* Overlapping GARCH runs: the effect on [stocks, selectedStock, params]
   (src/components/Analysis/GARCH.tsx:325-426).  Everything up to the first
   await (model.fit) happens when the effect runs; the rest of the run, ending
   in setResults and setVolatilityResults, happens when training completes. *)

\* the run gets as far as training: the stock exists and has more returns
\* than the lag
GarchTrains(symbol, runParams) ==
    /\ symbol \in DOMAIN stocks
    /\ Len(PriceRatios(Closes(stocks[symbol]))) > Lag(runParams.p, runParams.q)

\* the timelines a completed run can publish
GarchTimelines(symbol, runParams) ==
    LET data == stocks[symbol]
        prices == Closes(data)
        ratios == PriceRatios(prices)
        forecastDates == GenerateFutureDates(tz, data[Len(data)].date, runParams.forecastSteps)
        volatilityDates == Tail(Dates(data)) \o forecastDates
    IN {[results |-> FormatAnalysisResults(
                         tz, Dates(data), prices,
                         PredictedPrices(prices[Len(prices)], predictedReturns, ratios)),
         aux |-> FormatAnalysisResults(
                     tz, volatilityDates,
                     Arr([i \in 1..Len(ratios) |-> SqrtAbsLog(ratios[i])]),
                     predictedVolatility)] :
           predictedReturns \in ModelForecasts(NormalizedReturns(ratios),
                                               runParams.forecastSteps),
           predictedVolatility \in ModelForecasts(NormalizedReturns(ratios),
                                                  runParams.forecastSteps)}

\* the effect body for the given props
RunGarchEffect(symbol, runParams) ==
    IF symbol = ""
    THEN error' = "no target" /\ UNCHANGED <<runs, liveTensors>>
    ELSE IF symbol \notin DOMAIN stocks
    THEN error' = "failed" /\ UNCHANGED <<runs, liveTensors>>
    ELSE IF ~GarchTrains(symbol, runParams)
    THEN /\ error' = "failed"
         /\ \E left \in NormalizeDataLeft(PriceRatios(Closes(stocks[symbol]))) :
               liveTensors' = liveTensors \cup left
         /\ UNCHANGED runs
    ELSE /\ error' = ""
         /\ liveTensors' = liveTensors \cup NormalizeDataAllocated
         /\ runs' = Append(runs, [selectedStock |-> symbol, params |-> runParams,
                                  finished |-> FALSE, published |-> <<>>])

\* the component mounts and the effect runs for the first time
MountGarch ==
    /\ pc = "idle"
    /\ pc' = "mounted"
    /\ RunGarchEffect(selectedStock, params)
    /\ UNCHANGED <<stocks, selectedStock, featureStocks, params, tz, results, auxResults,
                   chiSquareResults, cointegrationResults>>

GarchProps ==
    {<<symbol, [p |-> 1, d |-> 0, q |-> 1, forecastSteps |-> n]>> :
        symbol \in {"A", "B", ""}, n \in 0..RunsMaxSteps}

\* the selected stock or the parameters change and the effect runs again
ChangeGarchProps ==
    /\ pc = "mounted"
    /\ Len(runs) < MaxRuns
    /\ \E props \in GarchProps :
          /\ props # <<selectedStock, params>>
          /\ selectedStock' = props[1]
          /\ params' = props[2]
          /\ RunGarchEffect(props[1], props[2])
    /\ UNCHANGED <<stocks, featureStocks, tz, results, auxResults,
                   chiSquareResults, cointegrationResults, pc>>

\* the training of a run completes: the run publishes its timelines
FinishGarchRun ==
    /\ \E i \in 1..Len(runs) :
          /\ ~runs[i].finished
          /\ \E timelines \in GarchTimelines(runs[i].selectedStock, runs[i].params) :
                /\ results' = timelines.results
                /\ auxResults' = timelines.aux
                /\ runs' = [runs EXCEPT ![i] = [@ EXCEPT !.finished = TRUE,
                                                          !.published = timelines]]
    /\ liveTensors' = liveTensors \cup DenormalizeDataAllocated
    /\ UNCHANGED <<stocks, selectedStock, featureStocks, params, tz, error,
                   chiSquareResults, cointegrationResults, pc>>

InitRuns ==
    /\ stocks = [s \in {"A", "B"} |->
                    IF s = "A" THEN DataFrom(0, <<1, 2, 1>>) ELSE DataFrom(0, <<2, 1, 2, 1>>)]
    /\ \E props \in GarchProps : selectedStock = props[1] /\ params = props[2]
    /\ featureStocks = <<>>
    /\ tz = UTC
    /\ results = <<>>
    /\ auxResults = <<>>
    /\ chiSquareResults = <<>>
    /\ cointegrationResults = <<>>
    /\ error = ""
    /\ pc = "idle"
    /\ liveTensors = {}
    /\ runs = <<>>

SpecRuns == InitRuns /\ [][MountGarch \/ ChangeGarchProps \/ FinishGarchRun]_vars

\* C29: once two overlapping runs have both completed, the displayed price and
\* volatility timelines are those of the run started last
C29_LatestRunIsDisplayed ==
    (Len(runs) >= 2 /\ \A i \in 1..Len(runs) : runs[i].finished) =>
        /\ results = runs[Len(runs)].published.results
        /\ auxResults = runs[Len(runs)].published.aux


----------------------------------------------------------------------------
\* C30: for a history of at least two strictly increasing dates,
\* generateFutureTradingDates returns exactly `steps` dates, strictly
\* increasing and all later than the last historical date
C30_FutureDatesCountedIncreasingAndLater ==
    (pc = "done" /\ Len(HistoryDates) >= 2) =>
        /\ Len(results) = params.forecastSteps
        /\ \A i \in 1..(Len(results) - 1) : results[i][1] < results[i + 1][1]
        /\ \A i \in 1..Len(results) : results[i][1] > HistoryDates[Len(HistoryDates)][1]

====
